---- MODULE Spec2Model ----
(***************************************************************************)
(* A model of the OpenAPI 3.x -> Swagger 2.0 conversion engine:            *)
(* reference resolution, 3.1 normalisation, structural conversion, strict  *)
(* sanitisation (allOf flattening) and dereferencing.                      *)
(*                                                                         *)
(* A document is a JavaScript object graph.  It is modelled as a heap: a   *)
(* sequence of nodes addressed by their index (the object identity), each  *)
(* node an insertion-ordered map from string keys to values (an array is a *)
(* node whose keys are "0", "1", ...).  Scalars carry their JavaScript     *)
(* type (string, boolean, number, null, undefined) next to their text.     *)
(*                                                                         *)
(* The recursive functions of the engine run on a machine with an explicit *)
(* call stack of activation records; one operator per function gives the   *)
(* effect of the activation on top of the stack up to its next call or     *)
(* return, and Run drives the machine until the outermost call returns or  *)
(* an exception is raised.                                                 *)
(***************************************************************************)
EXTENDS Integers, Sequences, FiniteSets, TLC

VARIABLES
    heap,      \* the object graph
    root,      \* the document the current call works on
    pc,        \* position in the run
    err,       \* "" or the name of the exception that ended the call
    ret,       \* return value of the last call
    warnings,  \* warning strings collected by the normalizer
    stats,     \* counters of the dereferencer / sanitizer
    arg        \* the inputs of the run (record)

vars == <<heap, root, pc, err, ret, warnings, stats, arg>>

(***************************************************************************)
(* Bounds of the model.                                                    *)
(***************************************************************************)
\* height of the call stack at which a call is a call-stack overflow
MaxDepth == 60
\* the machine is driven for at most 2^MaxRunLog steps
MaxRunLog == 10
\* depth to which two object graphs are compared
MaxTreeDepth == 30
\* number of references followed inside one another when resolving by hand
MaxRefChain == 4

(***************************************************************************)
(* Strings.  Positions are 1-based; 0 stands for "not found".              *)
(***************************************************************************)
StartsWith(s, p) == Len(s) >= Len(p) /\ SubSeq(s, 1, Len(p)) = p

\* s.indexOf(p)
IndexOf(s, p) ==
    LET S == {i \in 1..(Len(s) - Len(p) + 1) : SubSeq(s, i, i + Len(p) - 1) = p}
    IN  IF S = {} THEN 0 ELSE CHOOSE i \in S : \A j \in S : i <= j

RECURSIVE Concat(_, _, _)
\* parts[lo] + ... + parts[hi]
Concat(parts, lo, hi) ==
    IF lo > hi THEN ""
    ELSE IF lo = hi THEN parts[lo]
    ELSE LET mid == (lo + hi) \div 2
         IN  Concat(parts, lo, mid) \o Concat(parts, mid + 1, hi)

\* parts.join(sep)
JoinWith(parts, sep) ==
    Concat([i \in 1..(2 * Len(parts) - 1) |->
                IF i % 2 = 1 THEN parts[(i + 1) \div 2] ELSE sep],
           1, 2 * Len(parts) - 1)

\* s.split(sep) for a one-character separator
SplitOn(s, sep) ==
    LET P == {i \in 1..Len(s) : SubSeq(s, i, i) = sep}
        pos(k) == IF k = 0 THEN 0
                  ELSE IF k > Cardinality(P) THEN Len(s) + 1
                  ELSE CHOOSE i \in P : Cardinality({j \in P : j < i}) = k - 1
    IN  [k \in 1..(Cardinality(P) + 1) |-> SubSeq(s, pos(k - 1) + 1, pos(k) - 1)]

\* s.replace(/p/g, r) for a literal pattern p that cannot overlap itself
ReplaceAllStr(s, p, r) ==
    LET At(i) == i >= 1 /\ i + Len(p) - 1 <= Len(s) /\ SubSeq(s, i, i + Len(p) - 1) = p
    IN  Concat([i \in 1..Len(s) |->
                    IF At(i) THEN r
                    ELSE IF \E q \in (i - Len(p) + 1)..(i - 1) : At(q) THEN ""
                    ELSE SubSeq(s, i, i)],
               1, Len(s))

\* s.replace(p, r) for a literal string p: the first occurrence only
ReplaceFirstStr(s, p, r) ==
    LET i == IndexOf(s, p)
    IN  IF i = 0 THEN s
        ELSE SubSeq(s, 1, i - 1) \o r \o SubSeq(s, i + Len(p), Len(s))

Digits == {"0", "1", "2", "3", "4", "5", "6", "7", "8", "9"}

\* ref.replace(/\/allOf\/\d+/g, "")
StripAllOfIndex(s) ==
    LET D(i) == SubSeq(s, i, i) \in Digits
        M(p) == p + 7 <= Len(s) /\ SubSeq(s, p, p + 6) = "/allOf/" /\ D(p + 7)
        Gone(j) == \E p \in 1..j : M(p) /\ (j <= p + 6 \/ \A k \in (p + 7)..j : D(k))
    IN  Concat([j \in 1..Len(s) |-> IF Gone(j) THEN "" ELSE SubSeq(s, j, j)], 1, Len(s))

\* the two replacements in the wrong order
UnescapePointerSwapped(key) == ReplaceAllStr(ReplaceAllStr(key, "~0", "~"), "~1", "/")

\* key.replace(/~1/g, "/").replace(/~0/g, "~")
UnescapePointer(key) == ReplaceAllStr(ReplaceAllStr(key, "~1", "/"), "~0", "~")

\* array index <-> its key
IdxTable == <<"0", "1", "2", "3", "4", "5", "6", "7">>
IdxStr(i) == IdxTable[i + 1]
IsIdx(k) == \E i \in 1..Len(IdxTable) : IdxTable[i] = k
IdxOf(k) == (CHOOSE i \in 1..Len(IdxTable) : IdxTable[i] = k) - 1

(***************************************************************************)
(* formatPath: the JSON-Pointer text of a path of raw keys.                *)
(***************************************************************************)
EscapePointer(part) == ReplaceAllStr(ReplaceAllStr(part, "~", "~0"), "/", "~1")

formatPath(path) ==
    IF Len(path) = 0 THEN "#/"
    ELSE "#/" \o JoinWith(<<>> \o [i \in 1..Len(path) |-> EscapePointer(path[i])], "/")

(***************************************************************************)
(* Values and the heap.                                                    *)
(***************************************************************************)
Str(s)  == [t |-> "str",  s |-> s, id |-> 0]
Bool(b) == [t |-> "bool", s |-> IF b THEN "true" ELSE "false", id |-> 0]
Num(s)  == [t |-> "num",  s |-> s, id |-> 0]
Null    == [t |-> "null", s |-> "", id |-> 0]
Undef   == [t |-> "undef", s |-> "", id |-> 0]
Obj(i)  == [t |-> "obj",  s |-> "", id |-> i]

IsObj(v) == v.t = "obj"
IsStr(v) == v.t = "str"
\* undefined or null: reading a property of it is a TypeError
Nullish(v) == v.t \in {"undef", "null"}
\* JavaScript truthiness
Truthy(v) ==
    CASE v.t = "obj"  -> TRUE
      [] v.t = "str"  -> v.s # ""
      [] v.t = "bool" -> v.s = "true"
      [] v.t = "num"  -> v.s # "0"
      [] OTHER        -> FALSE

EmptyVal  == [q \in {} |-> Undef]
EmptyNode == [arr |-> FALSE, keys |-> <<>>, val |-> EmptyVal]
EmptyArr  == [arr |-> TRUE,  keys |-> <<>>, val |-> EmptyVal]

\* f as an enumerated function, each value computed once
Explicit(f) == f @@ EmptyVal

SeqHas(sq, x) == \E i \in 1..Len(sq) : sq[i] = x
SeqRemove(sq, x) == SelectSeq(sq, LAMBDA y : y # x)

IsArr(h, v) == IsObj(v) /\ h[v.id].arr
HasKey(h, i, k) == k \in DOMAIN h[i].val
Keys(h, i) == h[i].keys
\* the character of a string at an index
CharAt(s, i) == IF i < Len(s) THEN Str(SubSeq(s, i + 1, i + 1)) ELSE Undef
\* obj[k]
Get(h, v, k) ==
    IF IsObj(v)
    THEN IF HasKey(h, v.id, k) THEN h[v.id].val[k]
         ELSE IF h[v.id].arr /\ k = "length" THEN Num(IdxStr(Len(h[v.id].keys)))
         ELSE Undef
    ELSE IF IsStr(v) /\ IsIdx(k) THEN CharAt(v.s, IdxOf(k))
    ELSE Undef
\* obj[k] = x
Put(h, i, k, x) ==
    [h EXCEPT ![i] =
        [arr  |-> @.arr,
         keys |-> IF k \in DOMAIN @.val THEN @.keys ELSE Append(@.keys, k),
         val  |-> (k :> x) @@ @.val]]
\* delete obj[k] for every k in ks
DelAll(h, i, ks) ==
    [h EXCEPT ![i] =
        [arr  |-> @.arr,
         keys |-> SelectSeq(@.keys, LAMBDA y : y \notin ks),
         val  |-> Explicit([q \in (DOMAIN @.val) \ ks |-> @.val[q]])]]
\* delete obj[k]
Del(h, i, k) == DelAll(h, i, {k})
\* Object.assign(dst, src) leaving out the keys in skip
Assign(h, dst, src, skip) ==
    LET ks == SelectSeq(h[src].keys, LAMBDA y : y \notin skip)
        S  == {ks[i] : i \in 1..Len(ks)}
    IN  [h EXCEPT ![dst] =
            [arr  |-> @.arr,
             keys |-> @.keys \o SelectSeq(ks, LAMBDA y : y \notin DOMAIN h[dst].val),
             val  |-> Explicit([q \in (DOMAIN @.val) \cup S |->
                                   IF q \in S THEN h[src].val[q] ELSE @.val[q]])]]

(***************************************************************************)
(* Document literals: a tagged tree that Parse lays out on the heap in     *)
(* document order, and TreeOf, which reads a heap value back as a tree     *)
(* (deep equality).                                                        *)
(***************************************************************************)
TS(s) == [k |-> "s", v |-> Str(s), kv |-> <<>>]
TB(b) == [k |-> "s", v |-> Bool(b), kv |-> <<>>]
TN(s) == [k |-> "s", v |-> Num(s), kv |-> <<>>]
TM(kv) == [k |-> "m", v |-> Undef, kv |-> kv]
TA(el) == [k |-> "a", v |-> Undef,
           kv |-> <<>> \o [i \in 1..Len(el) |-> <<IdxStr(i - 1), el[i]>>]]

RECURSIVE Flat(_, _, _)
\* seqs[lo] \o ... \o seqs[hi]
Flat(seqs, lo, hi) ==
    IF lo > hi THEN <<>>
    ELSE IF lo = hi THEN seqs[lo]
    ELSE LET mid == (lo + hi) \div 2
         IN  Flat(seqs, lo, mid) \o Flat(seqs, mid + 1, hi)

RECURSIVE ObjPaths(_)
\* the positions (child indices from the top) of the objects and arrays of a
\* tree, in document order
ObjPaths(t) ==
    IF t.k = "s" THEN <<>>
    ELSE << <<>> >> \o
         Flat(<<>> \o [i \in 1..Len(t.kv) |->
                          LET ps == ObjPaths(t.kv[i][2])
                          IN  <<>> \o [n \in 1..Len(ps) |-> <<i>> \o ps[n]]],
              1, Len(t.kv))

RECURSIVE SubTree(_, _)
SubTree(t, p) == IF Len(p) = 0 THEN t ELSE SubTree(t.kv[Head(p)][2], Tail(p))

\* returns [h, v]: the heap with the tree laid out and the value naming it
Parse(h, tree) ==
    IF tree.k = "s" THEN [h |-> h, v |-> tree.v]
    ELSE LET ps == ObjPaths(tree)
             node(n) ==
                 LET t == SubTree(tree, ps[n])
                 IN  [arr  |-> t.k = "a",
                      keys |-> <<>> \o [i \in 1..Len(t.kv) |-> t.kv[i][1]],
                      val  |-> Explicit([key \in {t.kv[i][1] : i \in 1..Len(t.kv)} |->
                                   LET i == CHOOSE j \in 1..Len(t.kv) : t.kv[j][1] = key
                                       c == t.kv[i][2]
                                   IN  IF c.k = "s" THEN c.v
                                       ELSE Obj(Len(h) + (CHOOSE x \in (n + 1)..Len(ps) :
                                                             ps[x] = ps[n] \o <<i>>))])]
         IN  [h |-> h \o [n \in 1..Len(ps) |-> node(n)],
              v |-> Obj(Len(h) + 1)]

RECURSIVE TreeOf(_, _, _)
\* the tree a value denotes, key order left out (deep equality); "deep" marks
\* a branch cut at depth d
TreeOf(h, v, d) ==
    IF ~IsObj(v) THEN [k |-> "s", v |-> v, f |-> EmptyVal]
    ELSE IF d = 0 THEN [k |-> "deep", v |-> Undef, f |-> EmptyVal]
    ELSE [k |-> IF h[v.id].arr THEN "a" ELSE "m",
          v |-> Undef,
          f |-> Explicit([key \in DOMAIN h[v.id].val |-> TreeOf(h, h[v.id].val[key], d - 1)])]

(***************************************************************************)
(* deepClone: structuredClone keeps shared and cyclic structure inside the *)
(* clone: every object reachable from the value gets one copy.             *)
(***************************************************************************)
RECURSIVE Reach(_, _, _)
\* the identities reachable from the identities in S without passing a key
\* in skip
Reach(h, S, skip) ==
    LET N == S \cup UNION { { h[i].val[key].id :
                                key \in {q \in (DOMAIN h[i].val) \ skip : IsObj(h[i].val[q])} } :
                            i \in S }
    IN  IF N = S THEN S ELSE Reach(h, N, skip)

\* the value itself, not a copy
deepCloneShared(h, v) == [h |-> h, v |-> v]

\* returns [h, v]
deepClone(h, v) ==
    IF ~IsObj(v) THEN [h |-> h, v |-> v]
    ELSE LET R == Reach(h, {v.id}, {})
             old == SelectSeq([i \in 1..Len(h) |-> i], LAMBDA i : i \in R)
             new == Explicit([i \in R |-> Len(h) + Cardinality({j \in R : j <= i})])
             copy(i) == [arr  |-> h[i].arr,
                         keys |-> h[i].keys,
                         val  |-> Explicit([key \in DOMAIN h[i].val |->
                                      IF IsObj(h[i].val[key]) THEN Obj(new[h[i].val[key].id])
                                      ELSE h[i].val[key]])]
         IN  [h |-> h \o [n \in 1..Len(old) |-> copy(old[n])],
              v |-> Obj(new[v.id])]

(***************************************************************************)
(* The machine.                                                            *)
(*   h      heap                                                           *)
(*   stk    call stack: activation records [fn, pc, ...locals]             *)
(*   ret    value returned by the call that ended last                     *)
(*   err    "" or the exception that unwound the stack                     *)
(*   warn   warnings pushed so far                                         *)
(*   spec   the document the running stage closes over                     *)
(*   collect  whether warnings are collected (and schema paths tracked)    *)
(*   visited  the schemas the walker's visitor was called with, in order   *)
(*   cached   whether derefRef consults its cache: it always does; FALSE   *)
(*            gives the run that resolves every occurrence afresh          *)
(* and the variables the stages' inner functions close over.               *)
(***************************************************************************)
Mach(h) ==
    [h |-> h, stk |-> <<>>, ret |-> Undef, err |-> "", warn |-> <<>>, spec |-> Undef,
     cache |-> EmptyVal, resolving |-> {},
     replacedRefs |-> 0, missingRefs |-> 0, cycleRefs |-> 0,
     active |-> {}, seen |-> {}, work |-> <<>>, pass |-> 0,
     flattenedAllOf |-> 0, removedKeys |-> 0, removedExtensions |-> 0,
     collect |-> FALSE, visited |-> <<>>, cached |-> TRUE]

\* throw: no modelled caller catches, the stack unwinds
Throw(m, e) == [m EXCEPT !.err = e, !.ret = Undef, !.stk = <<>>]
\* return v to the caller
Return(m, v) == [m EXCEPT !.ret = v, !.stk = SubSeq(@, 1, Len(@) - 1)]
\* the running activation goes on as f
Goto(m, f) == [m EXCEPT !.stk[Len(m.stk)] = f]
\* the running activation, to go on as f, calls g
Call(m, f, g) ==
    IF Len(m.stk) >= MaxDepth THEN Throw(m, "RangeError")
    ELSE [m EXCEPT !.stk = Append(SubSeq(@, 1, Len(@) - 1), f) \o <<g>>]
\* a fresh object is created with the content of node n
New(m, n) == [m EXCEPT !.h = Append(@, n), !.ret = Obj(Len(m.h) + 1)]

(***************************************************************************)
(* Converter.resolveReference                                              *)
(***************************************************************************)
RECURSIVE WalkKeys(_, _, _, _)
\* keys.forEach(key => cur = cur[key]); reading a key of undefined or null
\* is a TypeError
WalkKeys(h, cur, keys, i) ==
    IF i > Len(keys) THEN [ok |-> TRUE, v |-> cur]
    ELSE IF Nullish(cur) THEN [ok |-> FALSE, v |-> Undef]
    ELSE WalkKeys(h, Get(h, cur, keys[i]), keys, i + 1)

\* the keys of a pointer: split on "/", unescape, drop the first segment
PointerKeys(ref) ==
    LET parts == SplitOn(ref, "/")
    IN  <<>> \o [i \in 1..(Len(parts) - 1) |-> UnescapePointer(parts[i + 1])]

\* the machine after the call: ret the result, or err the exception
resolveReferenceCloned(m, c) == [m EXCEPT !.h = c.h, !.ret = c.v]

\* w: the object the pointer leads to
resolveReferenceWalked(m, shouldClone, w) ==
    IF ~w.ok THEN Throw(m, "TypeError")
    ELSE IF shouldClone THEN resolveReferenceCloned(m, deepClone(m.h, w.v))
    ELSE [m EXCEPT !.ret = w.v]

resolveReferenceRef(m, base, shouldClone, ref) ==
    IF ~IsStr(ref) THEN Throw(m, "TypeError")
    ELSE IF StartsWith(ref.s, "#")
    THEN resolveReferenceWalked(m, shouldClone, WalkKeys(m.h, base, PointerKeys(ref.s), 1))
    ELSE Throw(m, "ExternalRefError")

resolveReference(m, base, obj, shouldClone) ==
    IF ~Truthy(obj) \/ ~Truthy(Get(m.h, obj, "$ref")) THEN [m EXCEPT !.ret = obj]
    ELSE resolveReferenceRef(m, base, shouldClone, Get(m.h, obj, "$ref"))

(***************************************************************************)
(* resolveRef: the lookup-only resolver of the sanitizer and dereferencer. *)
(* It returns null on every failure.                                       *)
(***************************************************************************)
RECURSIVE ResolveParts(_, _, _, _)
ResolveParts(h, current, parts, i) ==
    IF i > Len(parts) THEN IF Truthy(current) THEN current ELSE Null
    ELSE IF ~Truthy(current) \/ ~IsObj(current) THEN Null
    ELSE ResolveParts(h, Get(h, current, parts[i]), parts, i + 1)

resolveRef(h, rt, ref) ==
    IF ~Truthy(rt) \/ ~IsObj(rt) THEN Null
    ELSE IF ~Truthy(ref) \/ ~IsStr(ref) THEN Null
    ELSE IF ~StartsWith(ref.s, "#/") THEN Null
    ELSE LET parts == SplitOn(SubSeq(ref.s, 3, Len(ref.s)), "/")
         IN  ResolveParts(h, rt, <<>> \o [i \in 1..Len(parts) |-> UnescapePointer(parts[i])], 1)

(***************************************************************************)
(* dereferenceSwagger2: derefNode and derefRef call each other.            *)
(***************************************************************************)
\* the activation record of derefNode(node)
DerefNodeCall(node) ==
    [fn |-> "derefNode", pc |-> "enter", node |-> node, keys |-> <<>>, i |-> 0, out |-> Undef]

\* a pointer met while it is being resolved is never reported
RefInProgressNever(m, ref) == FALSE

\* resolving.has(ref)
RefInProgress(m, ref) == ref \in m.resolving

\* the sibling keys of the reference node are dropped
SpliceNone(h, merged, node) == h

\* for (const key in node) { if (key === "$ref") continue; merged[key] = node[key]; }
SpliceSiblings(h, merged, node) == Assign(h, merged, node, {"$ref"})

\* const fallback = node.description ? { description: node.description } : {};
\* if (!fallback.type) fallback.type = "object"; return fallback;
derefNodeFallback(m, desc) ==
    LET m1 == New(m, IF Truthy(desc)
                     THEN [arr |-> FALSE, keys |-> <<"description">>,
                           val |-> ("description" :> desc)]
                     ELSE EmptyNode)
        fallback == m1.ret
    IN  IF Truthy(Get(m1.h, fallback, "type")) THEN Return(m1, fallback)
        ELSE Return([m1 EXCEPT !.h = Put(@, fallback.id, "type", Str("object"))],
                    fallback)

\* a reference that is being resolved is not counted as missing
derefNodeMissingButCycle(m) ==
    IF m.cycleRefs > m.missingRefs THEN m.missingRefs ELSE m.missingRefs + 1

\* missingRefs += 1
derefNodeMissing(m) == m.missingRefs + 1

derefNode(m, f) ==
    LET h == m.h
        node == f.node
        \* the loops over the items of an array / the keys of an object: the
        \* next call, or the return when none is left
        NextItem(mm, i) ==
            IF i > Len(f.keys) THEN Return(mm, f.out)
            ELSE Call(mm, [f EXCEPT !.pc = "item", !.i = i],
                      DerefNodeCall(Get(mm.h, node, f.keys[i])))
        NextKey(mm, keys, i) ==
            LET rest == {j \in i..Len(keys) : HasKey(mm.h, node.id, keys[j])}
            IN  IF rest = {} THEN Return(mm, node)
                ELSE LET j == CHOOSE x \in rest : \A y \in rest : x <= y
                     IN  Call(mm, [f EXCEPT !.pc = "key", !.keys = keys, !.i = j],
                              DerefNodeCall(mm.h[node.id].val[keys[j]]))
    IN  CASE f.pc = "enter" ->
                IF ~Truthy(node) \/ ~IsObj(node) THEN Return(m, node)
                ELSE IF IsArr(h, node)
                THEN \* node.map(...): a new array, one call per item
                     LET keys == Keys(h, node.id)
                         m1 == New(m, EmptyArr)
                     IN  IF Len(keys) = 0 THEN Return(m1, m1.ret)
                         ELSE Call(m1, [f EXCEPT !.pc = "item", !.keys = keys, !.i = 1,
                                                 !.out = m1.ret],
                                   DerefNodeCall(Get(h, node, keys[1])))
                ELSE LET refv == Get(h, node, "$ref")
                     IN  IF Truthy(refv) /\ IsStr(refv)
                         THEN Call(m, [f EXCEPT !.pc = "resolved"],
                                   [fn |-> "derefRef", pc |-> "enter", ref |-> refv.s])
                         ELSE NextKey(m, Keys(h, node.id), 1)
          [] f.pc = "item" ->
                NextItem([m EXCEPT !.h = Put(@, f.out.id, f.keys[f.i], m.ret)], f.i + 1)
          [] f.pc = "key" ->
                NextKey([m EXCEPT !.h = Put(@, node.id, f.keys[f.i], m.ret)], f.keys, f.i + 1)
          [] f.pc = "resolved" ->
                IF ~Truthy(m.ret)
                THEN derefNodeFallback([m EXCEPT !.missingRefs = derefNodeMissing(m)],
                                       Get(h, node, "description"))
                ELSE LET merged == m.ret
                     IN  Call([m EXCEPT !.h = SpliceSiblings(h, merged.id, node.id),
                                        !.replacedRefs = @ + 1],
                              [f EXCEPT !.pc = "tail"], DerefNodeCall(merged))
          [] f.pc = "tail" -> Return(m, m.ret)

\* the entry is lost: null is stored for the pointer
derefRefStoreNull(m, ref, resolved) == (ref :> Null) @@ m.cache

\* cache.set(ref, resolved)
derefRefStore(m, ref, resolved) == (ref :> resolved) @@ m.cache

\* cache.has(ref)
derefRefCached(m, ref) == m.cached /\ ref \in DOMAIN m.cache

derefRef(m, f) ==
    LET h == m.h
        ref == f.ref
    IN  CASE f.pc = "enter" ->
                IF ~StartsWith(ref, "#/") THEN Return(m, Null)
                ELSE IF derefRefCached(m, ref)
                THEN LET c == deepClone(h, m.cache[ref])
                     IN  Return([m EXCEPT !.h = c.h], c.v)
                ELSE IF RefInProgress(m, ref)
                THEN Return([m EXCEPT !.cycleRefs = @ + 1], Null)
                ELSE LET target == resolveRef(h, m.spec, Str(ref))
                     IN  IF ~Truthy(target) \/ ~IsObj(target) THEN Return(m, Null)
                         ELSE LET c == deepClone(h, target)
                              IN  Call([m EXCEPT !.h = c.h, !.resolving = @ \cup {ref}],
                                       [f EXCEPT !.pc = "cloned"], DerefNodeCall(c.v))
          [] f.pc = "cloned" ->
                LET c == deepClone(h, m.ret)
                IN  Return([m EXCEPT !.h = c.h, !.cache = derefRefStore(m, ref, m.ret),
                                     !.resolving = @ \ {ref}], c.v)

(***************************************************************************)
(* The strict sanitizer: mergeSchema, flattenAllOf and their helpers.      *)
(***************************************************************************)
StrictSchemaRemoveKeys ==
    {"$schema", "$id", "anchor", "defs", "$defs", "if", "then", "else",
     "dependentSchemas", "dependentRequired", "unevaluatedItems",
     "unevaluatedProperties", "propertyNames", "patternProperties", "contains",
     "minContains", "maxContains", "prefixItems", "contentEncoding",
     "contentMediaType", "contentSchema", "const", "nullable", "oneOf", "anyOf",
     "not", "deprecated", "writeOnly", "examples"}

MapContainerKeys ==
    {"paths", "definitions", "parameters", "responses", "securityDefinitions",
     "headers", "callbacks", "schemas", "requestBodies", "components",
     "properties", "examples"}

\* s.includes(p)
Includes(s, p) == IndexOf(s, p) # 0

\* the elements of an array in index order
Elems(h, v) == <<>> \o [i \in 1..Len(h[v.id].keys) |-> h[v.id].val[h[v.id].keys[i]]]

\* the array with the elements el
ArrNode(el) ==
    [arr  |-> TRUE,
     keys |-> <<>> \o [i \in 1..Len(el) |-> IdxStr(i - 1)],
     val  |-> Explicit([k \in {IdxStr(i - 1) : i \in 1..Len(el)} |-> el[IdxOf(k) + 1]])]

\* Array.from(new Set(sq)): the distinct elements in order of first occurrence
Distinct(sq) ==
    LET first == {i \in 1..Len(sq) : \A j \in 1..(i - 1) : sq[j] # sq[i]}
        idx == SelectSeq(<<>> \o [i \in 1..Len(sq) |-> i], LAMBDA i : i \in first)
    IN  <<>> \o [n \in 1..Len(idx) |-> sq[idx[n]]]

isSchemaLike(h, value) ==
    /\ Truthy(value) /\ IsObj(value)
    /\ \E k \in {"$ref", "type", "format", "properties", "items", "allOf", "anyOf",
                 "oneOf", "additionalProperties", "enum", "discriminator"} :
           Truthy(Get(h, value, k))

ensureSchemaType(h, schema) ==
    IF ~Truthy(schema) \/ ~IsObj(schema) THEN h
    ELSE IF Truthy(Get(h, schema, "$ref")) THEN h
    ELSE IF Truthy(Get(h, schema, "type")) THEN h
    ELSE IF \/ Truthy(Get(h, schema, "properties"))
            \/ Truthy(Get(h, schema, "additionalProperties"))
            \/ Truthy(Get(h, schema, "required"))
         THEN Put(h, schema.id, "type", Str("object"))
    ELSE IF Truthy(Get(h, schema, "items")) THEN Put(h, schema.id, "type", Str("array"))
    ELSE h

\* the rewritten pointer, or null
rewriteAllOfRef(h, ref, rt) ==
    IF ~Truthy(ref) \/ ~IsStr(ref) THEN Null
    ELSE IF ~StartsWith(ref.s, "#/") \/ ~Includes(ref.s, "/allOf/") THEN Null
    ELSE LET candidate == StripAllOfIndex(ref.s)
         IN  IF candidate = ref.s THEN Null
             ELSE IF Truthy(resolveRef(h, rt, Str(candidate))) THEN Str(candidate)
             ELSE Null

\* the property that is already there is kept
MergePropertiesKeepFirst(h, dst, src) == Assign(h, dst, src, DOMAIN h[dst].val)

\* Object.assign(target.properties, value)
MergeProperties(h, dst, src) == Assign(h, dst, src, {})

\* mergeSchema(target, source): each key of source acts on the same key of
\* target only, so the loop is taken key by key at once
mergeSchema(h, t, source) ==
    IF ~Truthy(source) \/ ~IsObj(source) THEN h
    ELSE
    LET s == source.id
        sk == SelectSeq(Keys(h, s), LAMBDA k : k # "allOf")
        S == {sk[i] : i \in 1..Len(sk)}
        src(k) == h[s].val[k]
        cur(k) == IF HasKey(h, t, k) THEN h[t].val[k] ELSE Undef
        props == "properties" \in S /\ Truthy(src("properties")) /\ IsObj(src("properties"))
        reqd == "required" \in S /\ IsArr(h, src("required"))
        freshProps == props /\ ~Truthy(cur("properties"))
        pid == Len(h) + 1
        rid == IF freshProps THEN Len(h) + 2 ELSE Len(h) + 1
        \* whether target[k] is assigned
        sets(k) ==
            CASE k = "properties" /\ props -> TRUE
              [] k = "required" /\ reqd -> TRUE
              [] k = "type" -> ~Truthy(cur(k)) /\ Truthy(src(k))
              [] k = "items" /\ src(k) # Undef -> ~Truthy(cur(k))
              [] k = "additionalProperties" /\ src(k) # Undef -> cur(k) = Undef
              [] k = "description" -> ~Truthy(cur(k)) /\ Truthy(src(k))
              [] OTHER -> ~HasKey(h, t, k)
        newval(k) ==
            CASE k = "properties" /\ props -> IF freshProps THEN Obj(pid) ELSE cur(k)
              [] k = "required" /\ reqd -> Obj(rid)
              [] OTHER -> src(k)
        W == {k \in S : sets(k)}
        h1 == [h EXCEPT ![t] =
                  [arr  |-> @.arr,
                   keys |-> @.keys \o SelectSeq(sk, LAMBDA k : k \in W /\ k \notin DOMAIN h[t].val),
                   val  |-> Explicit([k \in (DOMAIN @.val) \cup W |->
                                         IF k \in W THEN newval(k) ELSE @.val[k]])]]
        h2 == IF freshProps THEN Append(h1, EmptyNode) ELSE h1
        h3 == IF reqd
              THEN Append(h2, ArrNode(Distinct(
                       (IF IsArr(h, cur("required")) THEN Elems(h, cur("required")) ELSE <<>>)
                       \o Elems(h, src("required")))))
              ELSE h2
    IN  IF props /\ IsObj(newval("properties"))
        THEN MergeProperties(h3, newval("properties").id, src("properties").id)
        ELSE h3

\* the activation record of flattenAllOf(schema, root, state)
FlattenCall(schema) ==
    [fn |-> "flattenAllOf", pc |-> "enter", schema |-> schema, items |-> <<>>, i |-> 0,
     merged |-> Undef]

\* the active set is never consulted
FlattenActiveNever(m, schema) == FALSE

\* state.active.has(schema)
FlattenActive(m, schema) == schema.id \in m.active

\* the schema stays in the active set
flattenAllOfLeaveKept(mm, schema) == mm

\* state.active.delete(schema)
flattenAllOfLeave(mm, schema) == [mm EXCEPT !.active = @ \ {schema.id}]

flattenAllOf(m, f) ==
    LET h == m.h
        schema == f.schema
        allOf == Get(h, schema, "allOf")
        leave(mm) == flattenAllOfLeave(mm, schema)
    IN  CASE f.pc = "enter" ->
                IF ~Truthy(schema) \/ ~IsArr(h, allOf) \/ Len(Keys(h, allOf.id)) = 0
                THEN Return(m, Bool(FALSE))
                ELSE IF FlattenActive(m, schema) THEN Return(m, Bool(FALSE))
                ELSE Goto([m EXCEPT !.active = @ \cup {schema.id}],
                          [f EXCEPT !.pc = "collect", !.i = 1])
          [] f.pc = "collect" ->
                \* for (const item of schema.allOf): one item
                IF f.i > Len(Keys(h, allOf.id))
                THEN LET m1 == New(m, EmptyNode)
                         merged == m1.ret
                     IN  Goto([m1 EXCEPT !.h = mergeSchema(@, merged.id, schema)],
                              [f EXCEPT !.pc = "merge", !.i = 1, !.merged = merged])
                ELSE LET item == Get(h, allOf, Keys(h, allOf.id)[f.i])
                         ref == Get(h, item, "$ref")
                     IN  IF ~Truthy(item) \/ ~IsObj(item) THEN Return(leave(m), Bool(FALSE))
                         ELSE IF Truthy(ref)
                         THEN LET direct == resolveRef(h, m.spec, ref)
                                  retry == ~Truthy(direct) /\ IsStr(ref) /\ Includes(ref.s, "/allOf/")
                                  candidate == Str(StripAllOfIndex(ref.s))
                                  second == resolveRef(h, m.spec, candidate)
                                  resolved == IF retry THEN second ELSE direct
                                  h1 == IF retry /\ Truthy(second)
                                        THEN Put(h, item.id, "$ref", candidate) ELSE h
                              IN  IF ~Truthy(resolved) \/ ~IsObj(resolved)
                                  THEN Return(leave([m EXCEPT !.h = h1]), Bool(FALSE))
                                  ELSE Goto([m EXCEPT !.h = h1],
                                            [f EXCEPT !.i = @ + 1, !.items = Append(@, resolved)])
                         ELSE Goto(m, [f EXCEPT !.i = @ + 1, !.items = Append(@, item)])
          [] f.pc = "merge" ->
                \* for (const item of resolvedItems): one item
                IF f.i > Len(f.items)
                THEN LET h1 == DelAll(h, schema.id, DOMAIN h[schema.id].val)
                         h2 == Assign(h1, schema.id, f.merged.id, {})
                     IN  Return(leave([m EXCEPT !.h = ensureSchemaType(h2, schema)]), Bool(TRUE))
                ELSE IF Truthy(Get(h, f.items[f.i], "allOf"))
                THEN Call(m, [f EXCEPT !.pc = "nested"], FlattenCall(f.items[f.i]))
                ELSE Goto([m EXCEPT !.h = mergeSchema(@, f.merged.id, f.items[f.i])],
                          [f EXCEPT !.i = @ + 1])
          [] f.pc = "nested" ->
                Goto([m EXCEPT !.h = mergeSchema(@, f.merged.id, f.items[f.i])],
                     [f EXCEPT !.pc = "merge", !.i = @ + 1])

(***************************************************************************)
(* sanitizeSwagger2: two passes over the document with a work stack; one   *)
(* step of the machine per popped entry.  stripExtensions keeps its        *)
(* default (true): no caller sets it.                                      *)
(***************************************************************************)
SanitizeCall ==
    [fn |-> "sanitizeSwagger2", pc |-> "pass", node |-> Undef]

\* what follows the flattening: the schema clean-up (for a schema-like
\* node in mode "normal") and the push of the children
sanitizeLoopPushed(f, mm, node, h2, removed, ks) ==
    Goto([mm EXCEPT !.h = h2, !.removedKeys = @ + removed,
                    !.work = @ \o [i \in 1..Len(ks) |->
                        [node |-> h2[node.id].val[ks[i]],
                         mode |-> IF ks[i] \in MapContainerKeys THEN "map" ELSE "normal"]]],
         [f EXCEPT !.pc = "pop"])

sanitizeLoopTyped(f, mm, node, h2, removed) == sanitizeLoopPushed(f, mm, node, h2, removed, Keys(h2, node.id))

sanitizeLoopCleaned(f, mm, node, clean, h1, gone) ==
    sanitizeLoopTyped(f, mm, node,
          IF clean THEN ensureSchemaType(DelAll(h1, node.id, gone), node) ELSE h1,
          Cardinality(gone))

\* h1: the heap after node.$ref = rewritten
sanitizeLoopRewritten(f, mm, node, clean, h1) ==
    sanitizeLoopCleaned(f, mm, node, clean, h1,
            IF clean
            THEN {k \in DOMAIN h1[node.id].val :
                     \/ k \in StrictSchemaRemoveKeys
                     \/ k = "additionalProperties" /\ h1[node.id].val[k].t = "bool"}
            ELSE {})

sanitizeLoopRef(f, mm, node, clean, rewritten) ==
    sanitizeLoopRewritten(f, mm, node, clean,
              IF Truthy(rewritten) THEN Put(mm.h, node.id, "$ref", rewritten) ELSE mm.h)

sanitizeLoopRest(f, mm, node, clean) ==
    LET ref == Get(mm.h, node, "$ref")
    IN  sanitizeLoopRef(f, mm, node, clean,
            IF clean /\ Truthy(ref) /\ IsStr(ref) /\ Includes(ref.s, "/allOf/")
            THEN rewriteAllOfRef(mm.h, ref, mm.spec) ELSE Null)

\* m2: after the extensions and the examples are gone
sanitizeLoopSchema(f, m2, node, schemaLike) ==
    IF schemaLike /\ IsArr(m2.h, Get(m2.h, node, "allOf"))
    THEN Call(m2, [f EXCEPT !.pc = "flattened", !.node = node], FlattenCall(node))
    ELSE sanitizeLoopRest(f, m2, node, schemaLike)

sanitizeLoopExamples(f, m1, node, h1, removed, ex) ==
    sanitizeLoopSchema(f, [m1 EXCEPT !.h = DelAll(h1, node.id, ex),
                      !.removedExtensions = @ + removed,
                      !.removedKeys = @ + Cardinality(ex)],
           node, isSchemaLike(h1, node))

\* h1: the heap after the "x-" keys are gone
sanitizeLoopExtensions(f, m1, node, h1, removed) ==
    sanitizeLoopExamples(f, m1, node, h1, removed,
             {k \in {"example", "examples"} : Get(h1, node, k) # Undef})

sanitizeLoopNormal(f, h, m1, node, xs) == sanitizeLoopExtensions(f, m1, node, DelAll(h, node.id, xs), Cardinality(xs))

\* m0: after stack.pop(); m1: after seen.add(node)
sanitizeLoopNode(m, f, h, m0, m1, node, mode) ==
    IF ~Truthy(node) \/ ~IsObj(node) THEN m0
    ELSE IF node.id \in m.seen THEN m0
    ELSE IF IsArr(h, node)
    THEN [m1 EXCEPT !.work = @ \o [i \in 1..Len(Keys(h, node.id)) |->
              [node |-> Elems(h, node)[i], mode |-> "normal"]]]
    ELSE IF mode # "normal" THEN sanitizeLoopRest(f, m1, node, FALSE)
    ELSE sanitizeLoopNormal(f, h, m1, node, {k \in DOMAIN h[node.id].val : StartsWith(k, "x-")})

sanitizeLoopPopped(m, f, h, m0, node, mode) ==
    sanitizeLoopNode(m, f, h, m0, IF IsObj(node) THEN [m0 EXCEPT !.seen = @ \cup {node.id}] ELSE m0,
         node, mode)

sanitizeLoop(m, f) ==
    LET h == m.h
    IN  CASE f.pc = "pass" ->
                IF m.pass >= 2 THEN Return(m, m.spec)
                ELSE Goto([m EXCEPT !.active = {}, !.seen = {},
                                    !.work = <<[node |-> m.spec, mode |-> "normal"]>>],
                          [f EXCEPT !.pc = "pop"])
          [] f.pc = "pop" ->
                IF Len(m.work) = 0
                THEN Goto([m EXCEPT !.pass = @ + 1], [f EXCEPT !.pc = "pass"])
                ELSE sanitizeLoopPopped(m, f, h, [m EXCEPT !.work = SubSeq(@, 1, Len(@) - 1)],
                            m.work[Len(m.work)].node, m.work[Len(m.work)].mode)
          [] f.pc = "flattened" ->
                sanitizeLoopRest(f, [m EXCEPT !.flattenedAllOf = @ + (IF Truthy(m.ret) THEN 1 ELSE 0)],
                     f.node, TRUE)

(***************************************************************************)
(* walkSchemas: discovery of the schema roots, then a work stack of        *)
(* schemas, each visited once (by identity).  The visitor is the           *)
(* normalizer's: normalizeSchemaNode.                                      *)
(***************************************************************************)
HTTP_METHODS == <<"get", "put", "post", "delete", "options", "head", "patch", "trace">>

UNSUPPORTED_JSON_SCHEMA_KEYS ==
    <<"$schema", "$id", "anchor", "defs", "$defs", "if", "then", "else",
      "dependentSchemas", "dependentRequired", "unevaluatedItems",
      "unevaluatedProperties", "propertyNames", "patternProperties", "contains",
      "minContains", "maxContains", "prefixItems", "contentEncoding",
      "contentMediaType", "contentSchema", "examples">>

\* for (const key in v): the keys of an object or array (the characters a
\* string would give are no objects, and no walker does anything with them)
ForIn(h, v) == IF IsObj(v) THEN Keys(h, v.id) ELSE <<>>

\* pushSchema for each entry [schema, path] in turn
pushSchema(m, entries) ==
    LET ok(i) == /\ Truthy(entries[i].schema) /\ IsObj(entries[i].schema)
                 /\ entries[i].schema.id \notin m.seen
                 /\ \A j \in 1..(i - 1) : entries[j].schema # entries[i].schema
        idx == SelectSeq(<<>> \o [i \in 1..Len(entries) |-> i], ok)
    IN  [m EXCEPT !.work = @ \o [n \in 1..Len(idx) |->
                                    [schema |-> entries[idx[n]].schema,
                                     path   |-> IF m.collect THEN entries[idx[n]].path ELSE <<>>]],
                  !.seen = @ \cup {entries[idx[n]].schema.id : n \in 1..Len(idx)}]

\* the walkers that call no walker of path items: the schemas they push, in
\* order.  kind names the walker: "parameters", "requestBody", "responses",
\* "parameter", "response", "header"
walkLeafentry(s, p) == [schema |-> s, path |-> p]

walkLeafeach(h, x, g(_)) == LET ks == ForIn(h, x)
                 IN  Flat(<<>> \o [i \in 1..Len(ks) |-> g(ks[i])], 1, Len(ks))

walkLeafwalkContent(h, content, base) ==
    IF ~Truthy(content) \/ ~IsObj(content) THEN <<>>
    ELSE walkLeafeach(h, content, LAMBDA mediaType :
             LET media == Get(h, content, mediaType)
             IN  IF Truthy(media) /\ Truthy(Get(h, media, "schema"))
                 THEN <<walkLeafentry(Get(h, media, "schema"), base \o <<mediaType, "schema">>)>>
                 ELSE <<>>)

walkLeafwalkParameter(h, param, base) ==
    IF ~Truthy(param) \/ ~IsObj(param) THEN <<>>
    ELSE (IF Truthy(Get(h, param, "schema"))
          THEN <<walkLeafentry(Get(h, param, "schema"), base \o <<"schema">>)>> ELSE <<>>)
         \o (IF Truthy(Get(h, param, "content"))
             THEN walkLeafwalkContent(h, Get(h, param, "content"), base \o <<"content">>) ELSE <<>>)

walkLeafwalkParameters(h, parameters, base) ==
    IF ~IsArr(h, parameters) THEN <<>>
    ELSE walkLeafeach(h, parameters, LAMBDA index :
             walkLeafwalkParameter(h, Get(h, parameters, index), base \o <<"parameters", index>>))

walkLeafwalkHeaders(h, headers, base) ==
    IF ~Truthy(headers) \/ ~IsObj(headers) THEN <<>>
    ELSE walkLeafeach(h, headers, LAMBDA name :
             walkLeafwalkParameter(h, Get(h, headers, name), base \o <<name>>))

walkLeafwalkResponse(h, response, base) ==
    IF ~Truthy(response) \/ ~IsObj(response) THEN <<>>
    ELSE (IF Truthy(Get(h, response, "content"))
          THEN walkLeafwalkContent(h, Get(h, response, "content"), base \o <<"content">>) ELSE <<>>)
         \o (IF Truthy(Get(h, response, "headers"))
             THEN walkLeafwalkHeaders(h, Get(h, response, "headers"), base \o <<"headers">>) ELSE <<>>)

walkLeafwalkResponses(h, responses, base) ==
    IF ~Truthy(responses) \/ ~IsObj(responses) THEN <<>>
    ELSE walkLeafeach(h, responses, LAMBDA code :
             walkLeafwalkResponse(h, Get(h, responses, code), base \o <<code>>))

walkLeafwalkRequestBody(h, requestBody, base) ==
    IF ~Truthy(requestBody) \/ ~IsObj(requestBody) THEN <<>>
    ELSE IF Truthy(Get(h, requestBody, "content"))
         THEN walkLeafwalkContent(h, Get(h, requestBody, "content"), base \o <<"content">>)
         ELSE <<>>

walkLeaf(h, kind, v, basePath) ==
    CASE kind = "parameters"  -> walkLeafwalkParameters(h, v, basePath)
      [] kind = "requestBody" -> walkLeafwalkRequestBody(h, v, basePath)
      [] kind = "responses"   -> walkLeafwalkResponses(h, v, basePath)
      [] kind = "parameter"   -> walkLeafwalkParameter(h, v, basePath)
      [] kind = "response"    -> walkLeafwalkResponse(h, v, basePath)
      [] kind = "header"      -> walkLeafwalkParameter(h, v, basePath)
      [] kind = "schema"      -> <<walkLeafentry(v, basePath)>>

\* for (const name in obj) callee(obj[name], base.concat(name)): the loops over
\* paths, webhooks, path items, callbacks (callee walkCallback) and callback
\* expressions (callee walkPathItem)
WalkEachCall(obj, base, callee) ==
    [fn |-> "walkEach", pc |-> "enter", obj |-> obj, base |-> base, callee |-> callee,
     keys |-> <<>>, i |-> 0]

WalkPathItemCall(pathItem, base) ==
    [fn |-> "walkPathItem", pc |-> "enter", item |-> pathItem, base |-> base, i |-> 0]

WalkOperationCall(operation, base) ==
    [fn |-> "walkOperation", pc |-> "enter", item |-> operation, base |-> base]

walkEach(m, f) ==
    LET keys == IF f.pc = "enter" THEN ForIn(m.h, f.obj) ELSE f.keys
        i == f.i + 1
    IN  IF i > Len(keys) THEN Return(m, Undef)
        ELSE Call(m, [f EXCEPT !.pc = "next", !.keys = keys, !.i = i],
                  IF f.callee = "walkCallback"
                  THEN WalkEachCall(Get(m.h, f.obj, keys[i]), f.base \o <<keys[i]>>, "walkPathItem")
                  ELSE WalkPathItemCall(Get(m.h, f.obj, keys[i]), f.base \o <<keys[i]>>))

\* walkCallbacks(callbacks, basePath), when callbacks is set
walkCallbacks(m, f, callbacks) ==
    IF Truthy(callbacks)
    THEN Call(m, [f EXCEPT !.pc = "end"],
              WalkEachCall(callbacks, f.base \o <<"callbacks">>, "walkCallback"))
    ELSE Return(m, Undef)

walkOperation(m, f) ==
    LET h == m.h
        operation == f.item
    IN  CASE f.pc = "enter" ->
                IF ~Truthy(operation) \/ ~IsObj(operation) THEN Return(m, Undef)
                ELSE walkCallbacks(
                         pushSchema(m,
                             walkLeaf(h, "parameters", Get(h, operation, "parameters"), f.base)
                             \o (IF Truthy(Get(h, operation, "requestBody"))
                                 THEN walkLeaf(h, "requestBody", Get(h, operation, "requestBody"),
                                               f.base \o <<"requestBody">>)
                                 ELSE <<>>)
                             \o (IF Truthy(Get(h, operation, "responses"))
                                 THEN walkLeaf(h, "responses", Get(h, operation, "responses"),
                                               f.base \o <<"responses">>)
                                 ELSE <<>>)),
                         f, Get(h, operation, "callbacks"))
          [] f.pc = "end" -> Return(m, Undef)

\* for (const method of HTTP_METHODS) from the i-th on
walkPathItemNextMethod(f, h, pathItem, mm, i) ==
    LET rest == {j \in i..Len(HTTP_METHODS) : Truthy(Get(h, pathItem, HTTP_METHODS[j]))}
    IN  IF rest = {} THEN walkCallbacks(mm, f, Get(h, pathItem, "callbacks"))
        ELSE LET j == CHOOSE x \in rest : \A y \in rest : x <= y
             IN  Call(mm, [f EXCEPT !.pc = "method", !.i = j],
                      WalkOperationCall(Get(h, pathItem, HTTP_METHODS[j]),
                                        f.base \o <<HTTP_METHODS[j]>>))

walkPathItem(m, f) ==
    LET h == m.h
        pathItem == f.item
    IN  CASE f.pc = "enter" ->
                IF ~Truthy(pathItem) \/ ~IsObj(pathItem) THEN Return(m, Undef)
                ELSE walkPathItemNextMethod(f, h, pathItem, pushSchema(m, walkLeaf(h, "parameters",
                                                 Get(h, pathItem, "parameters"), f.base)), 1)
          [] f.pc = "method" -> walkPathItemNextMethod(f, h, pathItem, m, f.i + 1)
          [] f.pc = "end" -> Return(m, Undef)

\* s + path + "." is pushed when warnings are collected
Warn(m, s, path) ==
    IF m.collect THEN [m EXCEPT !.warn = Append(@, s \o formatPath(path) \o ".")] ELSE m

\* each statement of the function, as a step from machine to machine
\* examples -> example
normalizeSchemaNodeExamples(schema, s, mm) ==
    LET examples == Get(mm.h, schema, "examples")
    IN  IF IsArr(mm.h, examples) /\ Len(Keys(mm.h, examples.id)) > 0
           /\ Get(mm.h, schema, "example") = Undef
        THEN [mm EXCEPT !.h = Put(@, s, "example", Get(mm.h, examples, "0"))]
        ELSE mm

\* the bucket is written on every node, empty when no keyword was there
normalizeSchemaNodeUnsupportedAlways(path, s, mm) ==
    LET uk == SelectSeq(UNSUPPORTED_JSON_SCHEMA_KEYS, LAMBDA k : HasKey(mm.h, s, k))
        U == {uk[i] : i \in 1..Len(uk)}
    IN  Warn([mm EXCEPT !.h =
                  Put(Append(DelAll(mm.h, s, U),
                             [arr |-> FALSE, keys |-> uk,
                              val |-> Explicit([k \in U |-> mm.h[s].val[k]])]),
                      s, "x-oas31-unsupported", Obj(Len(mm.h) + 1))],
             "Removed unsupported JSON Schema keywords at ", path)

\* the unsupported keywords move into x-oas31-unsupported
normalizeSchemaNodeUnsupported(path, s, mm) ==
    LET uk == SelectSeq(UNSUPPORTED_JSON_SCHEMA_KEYS, LAMBDA k : HasKey(mm.h, s, k))
        U == {uk[i] : i \in 1..Len(uk)}
    IN  IF Len(uk) = 0 THEN mm
        ELSE Warn([mm EXCEPT !.h =
                      Put(Append(DelAll(mm.h, s, U),
                                 [arr |-> FALSE, keys |-> uk,
                                  val |-> Explicit([k \in U |-> mm.h[s].val[k]])]),
                          s, "x-oas31-unsupported", Obj(Len(mm.h) + 1))],
                  "Removed unsupported JSON Schema keywords at ", path)

\* schema.nullable = true whenever the type array includes "null"
normalizeSchemaNodeNullableAlways(schema, s, mm) ==
    LET type == Get(mm.h, schema, "type")
    IN  IF IsArr(mm.h, type) /\ SeqHas(Elems(mm.h, type), Str("null"))
        THEN [mm EXCEPT !.h = Put(@, s, "nullable", Bool(TRUE))]
        ELSE mm

\* schema.nullable = schema.nullable ?? true, when the type array includes "null"
normalizeSchemaNodeNullable(schema, s, mm) ==
    LET type == Get(mm.h, schema, "type")
    IN  IF IsArr(mm.h, type) /\ SeqHas(Elems(mm.h, type), Str("null"))
           /\ Nullish(Get(mm.h, schema, "nullable"))
        THEN [mm EXCEPT !.h = Put(@, s, "nullable", Bool(TRUE))]
        ELSE mm

\* type arrays
normalizeSchemaNodeTypeArray(schema, path, s, mm) ==
    LET type == Get(mm.h, schema, "type")
        types == SelectSeq(Elems(mm.h, type), LAMBDA item : item # Str("null"))
    IN  IF ~IsArr(mm.h, type) THEN mm
        ELSE IF Len(types) = 1 THEN [mm EXCEPT !.h = Put(@, s, "type", types[1])]
        ELSE IF Len(types) > 1
        THEN Warn([mm EXCEPT !.h =
                      Put(Append(Put(mm.h, s, "type", types[1]), ArrNode(Tail(types))),
                          s, "x-type-alternatives", Obj(Len(mm.h) + 1))],
                  "Collapsed multiple schema types at ", path)
        ELSE Warn([mm EXCEPT !.h = Del(@, s, "type")],
                  "Dropped null-only schema type at ", path)

\* const -> enum
normalizeSchemaNodeConst(path, s, mm) ==
    IF ~HasKey(mm.h, s, "const") THEN mm
    ELSE Warn([mm EXCEPT !.h =
                  IF HasKey(mm.h, s, "enum") THEN Del(mm.h, s, "const")
                  ELSE Del(Put(Append(mm.h, ArrNode(<<mm.h[s].val["const"]>>)),
                               s, "enum", Obj(Len(mm.h) + 1)),
                           s, "const")],
              "Replaced const with enum at ", path)

\* a warning on every numeric exclusiveMinimum / exclusiveMaximum
normalizeSchemaNodeExclusiveAlways(schema, path, s, mm, exclusive, bound, name) ==
    LET ex == Get(mm.h, schema, exclusive)
    IN  IF ex.t # "num" THEN mm
        ELSE Warn([mm EXCEPT !.h = Put(Put(@, s, bound, ex), s, exclusive, Bool(TRUE))],
                  name, path)

\* numeric exclusiveMinimum / exclusiveMaximum -> boolean form
normalizeSchemaNodeExclusive(schema, path, s, mm, exclusive, bound, name) ==
    LET ex == Get(mm.h, schema, exclusive)
        m1 == [mm EXCEPT !.h = Put(Put(@, s, bound, ex), s, exclusive, Bool(TRUE))]
    IN  IF ex.t # "num" THEN mm
        ELSE IF Get(mm.h, schema, bound) \notin {Undef, ex}
        THEN Warn(m1, name, path)
        ELSE m1

normalizeSchemaNode(m, schema, path) ==
    LET s == schema.id
    IN  normalizeSchemaNodeExclusive(schema, path, s,
            normalizeSchemaNodeExclusive(schema, path, s,
                normalizeSchemaNodeConst(path, s,
                    normalizeSchemaNodeTypeArray(schema, path, s,
                        normalizeSchemaNodeNullable(schema, s,
                            normalizeSchemaNodeUnsupported(path, s,
                                normalizeSchemaNodeExamples(schema, s, m))))),
                "exclusiveMinimum", "minimum", "exclusiveMinimum overwrote minimum at "),
            "exclusiveMaximum", "maximum", "exclusiveMaximum overwrote maximum at ")

WalkSchemasCall(spec) == [fn |-> "walkSchemas", pc |-> "enter", spec |-> spec]

\* if (x) for (const name in x) ...: the loop, or nothing
walkSchemasEach(f, mm, then, x, base, callee) ==
    Call(mm, [f EXCEPT !.pc = then],
         WalkEachCall(IF Truthy(x) THEN x ELSE Undef, base, callee))

\* the schemas of a components container, in order
walkSchemasNamed(h, components, key, kind) ==
    LET x == Get(h, components, key)
        ks == IF Truthy(x) THEN ForIn(h, x) ELSE <<>>
    IN  Flat(<<>> \o [i \in 1..Len(ks) |->
                 walkLeaf(h, kind, Get(h, x, ks[i]), <<"components", key, ks[i]>>)],
             1, Len(ks))

\* forEach / for...in over a composition keyword of the schema
walkSchemasSub(hh, schema, path, key) ==
    LET x == Get(hh, schema, key)
        ks == ForIn(hh, x)
    IN  <<>> \o [i \in 1..Len(ks) |->
                    [schema |-> Get(hh, x, ks[i]), path |-> path \o <<key, ks[i]>>]]

walkSchemasOne(hh, schema, path, key) ==
    <<[schema |-> Get(hh, schema, key), path |-> path \o <<key>>]>>

\* the sub-schemas of a normalized schema go on the stack
walkSchemasPushChildren(m1, schema, path) ==
    LET hh == m1.h
        list(key) == Truthy(Get(hh, schema, key))
        items == Get(hh, schema, "items")
        props == Get(hh, schema, "properties")
        addl == Get(hh, schema, "additionalProperties")
    IN  IF \E key \in {"allOf", "anyOf", "oneOf"} :
               list(key) /\ ~IsArr(hh, Get(hh, schema, key))
        THEN \* .forEach is not a function
             Throw(m1, "TypeError")
        ELSE pushSchema(m1,
                 (IF list("allOf") THEN walkSchemasSub(hh, schema, path, "allOf") ELSE <<>>)
                 \o (IF list("anyOf") THEN walkSchemasSub(hh, schema, path, "anyOf") ELSE <<>>)
                 \o (IF list("oneOf") THEN walkSchemasSub(hh, schema, path, "oneOf") ELSE <<>>)
                 \o (IF list("not") THEN walkSchemasOne(hh, schema, path, "not") ELSE <<>>)
                 \o (IF IsArr(hh, items) THEN walkSchemasSub(hh, schema, path, "items")
                     ELSE IF Truthy(items) THEN walkSchemasOne(hh, schema, path, "items")
                     ELSE <<>>)
                 \o (IF Truthy(props) /\ IsObj(props)
                     THEN walkSchemasSub(hh, schema, path, "properties") ELSE <<>>)
                 \o (IF Truthy(addl) /\ IsObj(addl)
                     THEN walkSchemasOne(hh, schema, path, "additionalProperties")
                     ELSE <<>>))

walkSchemas(m, f) ==
    LET h == m.h
        spec == f.spec
        components == Get(h, spec, "components")
    IN  CASE f.pc = "enter" ->
                IF ~Truthy(spec) \/ ~IsObj(spec) THEN Return(m, Undef)
                ELSE walkSchemasEach(f, [m EXCEPT !.seen = {}, !.work = <<>>], "webhooks",
                          Get(h, spec, "paths"), <<"paths">>, "walkPathItem")
          [] f.pc = "webhooks" ->
                walkSchemasEach(f, m, "components", Get(h, spec, "webhooks"), <<"webhooks">>, "walkPathItem")
          [] f.pc = "components" ->
                IF ~Truthy(components) \/ ~IsObj(components) THEN Goto(m, [f EXCEPT !.pc = "loop"])
                ELSE walkSchemasEach(f, pushSchema(m, walkSchemasNamed(h, components, "schemas", "schema") \o walkSchemasNamed(h, components, "parameters", "parameter")
                                        \o walkSchemasNamed(h, components, "requestBodies", "requestBody")
                                        \o walkSchemasNamed(h, components, "responses", "response")
                                        \o walkSchemasNamed(h, components, "headers", "header")),
                          "callbacks", Get(h, components, "pathItems"),
                          <<"components", "pathItems">>, "walkPathItem")
          [] f.pc = "callbacks" ->
                walkSchemasEach(f, m, "loop", Get(h, components, "callbacks"),
                     <<"components", "callbacks">>, "walkCallback")
          [] f.pc = "loop" ->
                \* while (stack.length > 0): one entry
                IF Len(m.work) = 0 THEN Return(m, Undef)
                ELSE LET current == m.work[Len(m.work)]
                     IN  walkSchemasPushChildren(
                             normalizeSchemaNode([m EXCEPT !.work = SubSeq(@, 1, Len(@) - 1),
                                                           !.visited = Append(@, current.schema.id)],
                                                 current.schema, current.path),
                             current.schema, current.path)

RECURSIVE StringOf(_, _)
\* String(v)
StringOf(h, v) ==
    CASE v.t \in {"str", "num", "bool"} -> v.s
      [] v.t = "null" -> "null"
      [] v.t = "undef" -> "undefined"
      [] v.t = "obj" ->
            IF h[v.id].arr
            THEN LET el == Elems(h, v)
                 IN  JoinWith(<<>> \o [i \in 1..Len(el) |->
                                          IF Nullish(el[i]) THEN "" ELSE StringOf(h, el[i])], ",")
            ELSE "[object Object]"

(***************************************************************************)
(* The structural converter (class Converter).  The methods that reach     *)
(* convertSchema, and convertSchema itself, are activations of the         *)
(* machine; the others are computed in one piece and hand a machine that   *)
(* has thrown through unchanged.  Reading a property of undefined or null, *)
(* writing a property of a primitive (module code is strict) and calling a *)
(* method the value does not have are TypeErrors.  Documents come from     *)
(* JSON or YAML text: where the code enumerates the keys of a value, the   *)
(* value is an object, an array, or has no keys.                           *)
(***************************************************************************)
SCHEMA_PROPERTIES ==
    <<"format", "minimum", "maximum", "exclusiveMinimum", "exclusiveMaximum",
      "minLength", "maxLength", "multipleOf", "minItems", "maxItems", "uniqueItems",
      "minProperties", "maxProperties", "additionalProperties", "pattern", "enum",
      "default">>

ARRAY_PROPERTIES == <<"type", "items">>

\* the values of SUPPORTED_MIME_TYPES
SUPPORTED_MIME_TYPES == <<"application/x-www-form-urlencoded", "multipart/form-data">>

\* arr.push(x)
Push(h, arr, x) == Put(h, arr.id, IdxStr(Len(h[arr.id].keys)), x)

\* obj[k] = v(k) for the keys of ks in turn
PutAll(h, i, ks, v(_)) ==
    LET S == {ks[n] : n \in 1..Len(ks)}
    IN  [h EXCEPT ![i] =
            [arr  |-> @.arr,
             keys |-> @.keys \o SelectSeq(ks, LAMBDA y : y \notin DOMAIN h[i].val),
             val  |-> Explicit([q \in (DOMAIN @.val) \cup S |->
                                   IF q \in S THEN v(q) ELSE @.val[q]])]]

\* s.toLowerCase() on ASCII text
Lower(s) ==
    LET up == "ABCDEFGHIJKLMNOPQRSTUVWXYZ"
        lo == "abcdefghijklmnopqrstuvwxyz"
        c(i) == LET x == SubSeq(s, i, i)
                    n == IndexOf(up, x)
                IN  IF n # 0 THEN SubSeq(lo, n, n) ELSE x
    IN  Concat(<<>> \o [i \in 1..Len(s) |-> c(i)], 1, Len(s))

\* /^(application\/json|[^;\/ \t]+\/[^;\/ \t]+[+]json)[ \t]*(;.*)?$/i
isJsonMimeType(type) ==
    LET \* the text before the first ";"
        Before(t, semi) == IF semi = 0 THEN t ELSE SubSeq(t, 1, semi - 1)
        Last(solid) == IF solid = {} THEN 0 ELSE CHOOSE i \in solid : \A j \in solid : j <= i
        \* core: the head without its trailing blanks; whole: no blank inside it
        Match(core, slash, whole) ==
            \/ core = "application/json"
            \/ /\ Len(core) >= 8
               /\ SubSeq(core, Len(core) - 4, Len(core)) = "+json"
               /\ slash > 1
               /\ slash < Len(core) - 5
               /\ IndexOf(SubSeq(core, slash + 1, Len(core)), "/") = 0
               /\ whole
        Core(core, whole) == Match(core, IndexOf(core, "/"), whole)
        Trim(head, solid, n) == Core(SubSeq(head, 1, n), solid = 1..n)
        Solid(head, solid) == Trim(head, solid, Last(solid))
        Blanks(head) ==
            Solid(head, {i \in 1..Len(head) : SubSeq(head, i, i) \notin {" ", "\t"}})
        Lowered(t) == Blanks(Before(t, IndexOf(t, ";")))
    IN  Lowered(Lower(type))

\* the form media types and the JSON-compatible media types among keys
FormTypes(keys) == SelectSeq(keys, LAMBDA k : SeqHas(SUPPORTED_MIME_TYPES, k))
JsonTypes(keys) == SelectSeq(keys, LAMBDA k : isJsonMimeType(k))

\* the form media types listed first
getSupportedMimeTypesFormFirst(h, content) ==
    FormTypes(ForIn(h, content)) \o JsonTypes(ForIn(h, content))

\* Object.keys(content).filter(...)
getSupportedMimeTypes(h, content) ==
    SelectSeq(ForIn(h, content),
              LAMBDA key : SeqHas(SUPPORTED_MIME_TYPES, key) \/ isJsonMimeType(key))

\* [err, host, scheme, pathname]; new URL() on plain ASCII text: the
\* authority runs to the first "/", "?" or "#", an empty authority or one
\* with a brace, a blank or an angle bracket is rejected, an empty path is "/"
parseServerUrl(serverUrl) ==
    LET none == [err |-> FALSE, host |-> Undef, scheme |-> Undef, pathname |-> Undef]
    IN  IF ~Truthy(serverUrl) THEN none
        ELSE IF ~IsStr(serverUrl) THEN [none EXCEPT !.err = TRUE]
        ELSE LET s == serverUrl.s
                 scheme == IF StartsWith(s, "http://") THEN "http"
                           ELSE IF StartsWith(s, "https://") THEN "https" ELSE ""
                 rest == SubSeq(s, Len(scheme) + 4, Len(s))
                 stops == {i \in 1..Len(rest) : SubSeq(rest, i, i) \in {"/", "?", "#"}}
                 e == IF stops = {} THEN Len(rest) + 1
                      ELSE CHOOSE i \in stops : \A j \in stops : i <= j
                 authority == SubSeq(rest, 1, e - 1)
                 tail == SubSeq(rest, e, Len(rest))
                 cuts == {i \in 1..Len(tail) : SubSeq(tail, i, i) \in {"?", "#"}}
                 pe == IF cuts = {} THEN Len(tail)
                       ELSE (CHOOSE i \in cuts : \A j \in cuts : i <= j) - 1
                 path == SubSeq(tail, 1, pe)
                 invalid == \/ authority = ""
                            \/ \E i \in 1..Len(authority) :
                                   SubSeq(authority, i, i) \in {"{", "}", " ", "<", ">"}
             IN  IF scheme = ""
                 THEN [err |-> FALSE, host |-> Null, scheme |-> Null, pathname |-> serverUrl]
                 ELSE IF invalid THEN none
                 ELSE [err |-> FALSE, host |-> Str(Lower(authority)), scheme |-> Str(scheme),
                       pathname |-> Str(IF path = "" THEN "/" ELSE path)]

convertInfos(m) ==
    LET h == m.h
        spec == m.spec
        servers == Get(h, spec, "servers")
        server == IF Truthy(servers) THEN Get(h, servers, "0") ELSE servers
        variables == Get(h, server, "variables")
        vs == IF Truthy(variables) THEN ForIn(h, variables) ELSE <<>>
        RECURSIVE Subst(_, _)
        \* the url with the defaults of the variables from the i-th on put in;
        \* ok is FALSE when .replace is called on a value that is no string
        Subst(url, i) ==
            IF i > Len(vs) THEN [ok |-> TRUE, url |-> url]
            ELSE LET vo == Get(h, variables, vs[i])
                     dflt == IF Truthy(vo) THEN Get(h, vo, "default") ELSE Undef
                 IN  IF ~Truthy(dflt) THEN Subst(url, i + 1)
                     ELSE IF ~IsStr(url) THEN [ok |-> FALSE, url |-> url]
                     ELSE Subst(Str(ReplaceAllStr(url.s, "{" \o vs[i] \o "}", StringOf(h, dflt))),
                                i + 1)
        \* host, schemes and basePath from the parsed url
        Server(parsed) ==
            LET h1 == IF Nullish(parsed.host) THEN Del(h, spec.id, "host")
                      ELSE Put(h, spec.id, "host", parsed.host)
                h2 == IF Nullish(parsed.scheme) THEN Del(h1, spec.id, "schemes")
                      ELSE Put(Append(h1, ArrNode(<<parsed.scheme>>)), spec.id, "schemes",
                               Obj(Len(h1) + 1))
            IN  IF parsed.err THEN Throw(m, "TypeError")
                ELSE [m EXCEPT !.h = DelAll(IF Truthy(parsed.pathname)
                                            THEN Put(h2, spec.id, "basePath", parsed.pathname)
                                            ELSE h2,
                                            spec.id, {"servers", "openapi"})]
        Url(sub) == IF ~sub.ok THEN Throw(m, "TypeError") ELSE Server(parseServerUrl(sub.url))
    IN  IF ~Truthy(server) THEN [m EXCEPT !.h = DelAll(h, spec.id, {"servers", "openapi"})]
        ELSE Url(Subst(Get(h, server, "url"), 1))

\* r: the machine after this.resolveReference(this.spec, obj.schema, true)
copySchemaPropertiesCopy(obj, props, r) ==
    LET schema == r.ret
        value(prop) == Get(r.h, schema, prop)
        ks == SelectSeq(props, LAMBDA prop :
                  /\ ~(prop = "additionalProperties" /\ value(prop).t = "bool")
                  /\ value(prop) # Undef)
    IN  IF r.err # "" \/ ~Truthy(schema) THEN r
        ELSE [r EXCEPT !.h = PutAll(r.h, obj.id, ks, value)]

copySchemaProperties(m, obj, props) ==
    IF m.err # "" THEN m
    ELSE copySchemaPropertiesCopy(obj, props, resolveReference(m, m.spec, Get(m.h, obj, "schema"), TRUE))

\* r: the machine after this.resolveReference(this.spec, obj.schema, true)
copySchemaXPropertiesCopy(obj, r) ==
    LET schema == r.ret
        value(prop) == Get(r.h, schema, prop)
        ks == SelectSeq(ForIn(r.h, schema), LAMBDA propName :
                  ~HasKey(r.h, obj.id, propName) /\ StartsWith(propName, "x-"))
    IN  IF r.err # "" \/ ~Truthy(schema) THEN r
        ELSE [r EXCEPT !.h = PutAll(r.h, obj.id, ks, value)]

copySchemaXProperties(m, obj) ==
    IF m.err # "" THEN m
    ELSE copySchemaXPropertiesCopy(obj, resolveReference(m, m.spec, Get(m.h, obj, "schema"), TRUE))

\* the activation record of convertSchema(def, operationDirection)
ConvertSchemaCall(def, dir) ==
    [fn |-> "convertSchema", pc |-> "enter", def |-> def, dir |-> dir,
     keys |-> <<>>, i |-> 0]

\* the activation record of convertParameters(obj)
ConvertParametersCall(obj) ==
    [fn |-> "convertParameters", pc |-> "enter", obj |-> obj, i |-> 0]

\* the callback of forEach on the parameter under key, statement by
\* statement; each step takes the machine the one before left
\* if (param.type === "array") ...; delete param.style; delete param.explode
\* <<the value assigned to param.collectionFormat>>, or <<>> when no
\* branch assigns
convertParameterscollectionFormat(style, explode) ==
    CASE style = Str("matrix") ->
             <<IF Truthy(explode) THEN Undef ELSE Str("csv")>>
      [] style = Str("label") -> <<Undef>>
      [] style = Str("simple") -> <<Str("csv")>>
      [] style = Str("spaceDelimited") -> <<Str("ssv")>>
      [] style = Str("pipeDelimited") -> <<Str("pipes")>>
      [] style = Str("deepOpbject") -> <<Str("multi")>>
      [] style = Str("form") ->
             <<IF explode = Bool(FALSE) THEN Str("csv") ELSE Str("multi")>>
      [] OTHER -> <<>>

convertParametersFormat(mm, param, format) ==
    [mm EXCEPT
        !.h = DelAll(IF Get(mm.h, param, "type") = Str("array") /\ format # <<>>
                     THEN Put(mm.h, param.id, "collectionFormat", format[1])
                     ELSE mm.h,
                     param.id, {"style", "explode"}),
        !.ret = param]

convertParametersStyled(mm, param) ==
    IF mm.err # "" THEN mm
    ELSE convertParametersFormat(mm, param,
                convertParameterscollectionFormat(
                    IF Truthy(Get(mm.h, param, "style")) THEN Get(mm.h, param, "style")
                    ELSE IF Get(mm.h, param, "in") \in {Str("query"), Str("cookie")}
                    THEN Str("form")
                    ELSE Str("simple"),
                    Get(mm.h, param, "explode")))

\* delete param.schema; delete param.allowReserved; example -> x-example
convertParametersCleaned(mm, param) ==
    LET h6 == DelAll(mm.h, param.id, {"schema", "allowReserved"})
        ex == Get(h6, param, "example")
    IN  IF mm.err # "" THEN mm
        ELSE [mm EXCEPT !.h = Del(IF ex # Undef THEN Put(h6, param.id, "x-example", ex)
                                  ELSE h6,
                                  param.id, "example")]

\* r4: after this.resolveReference(this.spec, param.schema, false)
convertParametersDesc(r4, param) ==
    LET desc == IF Truthy(r4.ret) THEN Get(r4.h, r4.ret, "description") ELSE Undef
    IN  IF r4.err = "" /\ Truthy(desc)
        THEN [r4 EXCEPT !.h = Put(@, param.id, "description", desc)]
        ELSE r4

\* c3: after the three copies of the schema's keywords
convertParametersDescribed(c3, param) ==
    IF c3.err = "" /\ ~Truthy(Get(c3.h, param, "description"))
    THEN convertParametersDesc(resolveReference(c3, c3.spec, Get(c3.h, param, "schema"), FALSE), param)
    ELSE c3

convertParametersCopied(m1, param) ==
    copySchemaXProperties(
        copySchemaProperties(
            copySchemaProperties(m1, param, SCHEMA_PROPERTIES),
            param, ARRAY_PROPERTIES),
        param)

\* r0: after this.resolveReference(this.spec, param, false)
convertParametersParam(params, r0, key) ==
    LET param == r0.ret
        m1 == [r0 EXCEPT !.h = Put(r0.h, params.id, key, param)]
    IN  IF r0.err # "" THEN r0
        ELSE IF Nullish(param) THEN Throw(m1, "TypeError")
        ELSE IF ~IsObj(param) THEN m1
        ELSE convertParametersStyled(IF Get(m1.h, param, "in") # Str("body")
                    THEN convertParametersCleaned(convertParametersDescribed(convertParametersCopied(m1, param), param), param)
                    ELSE m1,
                    param)

convertParametersBody(m, h, params, key) == convertParametersParam(params, resolveReference(m, m.spec, Get(h, params, key), FALSE), key)

convertParametersEach(f, b) == IF b.err # "" THEN b ELSE Goto(b, [f EXCEPT !.i = f.i + 1])

convertParameters(m, f) ==
    LET h == m.h
        obj == f.obj
        params == Get(h, obj, "parameters")
    IN  CASE f.pc = "enter" ->
                IF Nullish(obj) THEN Throw(m, "TypeError")
                ELSE IF params = Undef THEN Return(m, Undef)
                ELSE IF ~Truthy(params)
                THEN IF ~IsObj(obj) THEN Throw(m, "TypeError")
                     ELSE Return([m EXCEPT !.h = Put(Append(h, EmptyArr), obj.id, "parameters",
                                                     Obj(Len(h) + 1))], Undef)
                ELSE IF ~IsArr(h, params) THEN Throw(m, "TypeError")
                ELSE Goto(m, [f EXCEPT !.pc = "each", !.i = 1])
          [] f.pc = "each" ->
                IF f.i > Len(Keys(h, params.id)) THEN Return(m, Undef)
                ELSE convertParametersEach(f, convertParametersBody(m, h, params, Keys(h, params.id)[f.i]))

\* delete operation.requestBody; this.convertParameters(operation)
convertOperationParametersFinish(f, operation, mm) ==
    Call([mm EXCEPT !.h = Del(mm.h, operation.id, "requestBody")],
         [f EXCEPT !.pc = "end"], ConvertParametersCall(operation))

\* if (param.schema) this.convertSchema(param.schema, "request")
convertOperationParametersSchema(f, operation, m5, param) ==
    IF Truthy(Get(m5.h, param, "schema"))
    THEN Call(m5, [f EXCEPT !.pc = "schemaDone"],
              ConvertSchemaCall(Get(m5.h, param, "schema"), Str("request")))
    ELSE convertOperationParametersFinish(f, operation, m5)

\* for (const name in param.schema.properties) ... operation.parameters.push(formDataParam)
convertOperationParametersFormParams(f, operation, rs, hf, properties, required, param, parameters) ==
    LET names == ForIn(hf, properties)
        kept == SelectSeq(names, LAMBDA name :
                    ~Truthy(Get(hf, Get(hf, properties, name), "readOnly")))
        isRequired(name) ==
            IF IsArr(hf, required) THEN SeqHas(Elems(hf, required), Str(name))
            ELSE IsStr(required) /\ Includes(required.s, name)
        formDataParam(name) ==
            [arr  |-> FALSE,
             keys |-> <<"name", "in", "schema">> \o
                      (IF isRequired(name) THEN <<"required">> ELSE <<>>),
             val  |-> Explicit([k \in {"name", "in", "schema"} \cup
                                      (IF isRequired(name) THEN {"required"} ELSE {}) |->
                          CASE k = "name" -> Str(name)
                            [] k = "in" -> Str("formData")
                            [] k = "schema" -> Get(hf, properties, name)
                            [] k = "required" -> Bool(TRUE)])]
        n0 == Len(hf[parameters.id].keys)
        hp == [(hf \o [i \in 1..Len(kept) |-> formDataParam(kept[i])])
                  EXCEPT ![parameters.id] =
                      [arr  |-> TRUE,
                       keys |-> @.keys \o [i \in 1..Len(kept) |-> IdxStr(n0 + i - 1)],
                       val  |-> Explicit([k \in (DOMAIN @.val) \cup
                                                {IdxStr(n0 + i - 1) : i \in 1..Len(kept)} |->
                                    IF k \in DOMAIN @.val THEN @.val[k]
                                    ELSE Obj(Len(hf) + IdxOf(k) - n0 + 1)])]]
    IN  IF \/ \E i \in 1..Len(names) : Nullish(Get(hf, properties, names[i]))
           \/ Len(kept) > 0 /\ ~IsArr(hf, parameters)
           \/ Len(kept) > 0 /\ Truthy(required) /\ ~IsArr(hf, required)
                            /\ ~IsStr(required)
        THEN Throw(rs, "TypeError")
        ELSE convertOperationParametersSchema(f, operation, [rs EXCEPT !.h = hp], param)

\* hf: the heap after param.schema = this.resolveReference(...)
convertOperationParametersFormSchema(f, operation, rs, hf, schema, param, parameters) ==
    IF Get(hf, schema, "type") = Str("object") /\ Truthy(Get(hf, schema, "properties"))
    THEN convertOperationParametersFormParams(f, operation, rs, hf, Get(hf, schema, "properties"),
                    Get(hf, schema, "required"), param, parameters)
    ELSE IF ~IsArr(hf, parameters) THEN Throw(rs, "TypeError")
    ELSE convertOperationParametersSchema(f, operation, [rs EXCEPT !.h = Push(hf, parameters, param)], param)

\* the form branch; rs: after this.resolveReference(this.spec, param.schema, true)
convertOperationParametersForm(f, operation, rs, param, parameters) ==
    IF rs.err # "" THEN rs
    ELSE IF Nullish(rs.ret) THEN Throw(rs, "TypeError")
    ELSE convertOperationParametersFormSchema(f, operation, rs, Put(rs.h, param.id, "schema", rs.ret), rs.ret,
                    param, parameters)

\* the other two branches; hd: the heap after delete param.type
convertOperationParametersBinary(hd, param, media) ==
    IF Truthy(Get(hd, media, "schema"))
    THEN Put(hd, param.id, "schema", Get(hd, media, "schema"))
    ELSE Put(Append(hd, [arr |-> FALSE, keys |-> <<"type", "format">>,
                         val |-> ("type" :> Str("string")) @@
                                 ("format" :> Str("binary"))]),
             param.id, "schema", Obj(Len(hd) + 1))

convertOperationParametersPushed(f, operation, mm, hb, param, parameters) ==
    IF ~IsArr(hb, parameters) THEN Throw(mm, "TypeError")
    ELSE convertOperationParametersSchema(f, operation, [mm EXCEPT !.h = Push(hb, parameters, param)], param)

\* h4: the heap after delete param.content; operation.consumes = mediaTypes;
\* param.in = ...
convertOperationParametersBranch(f, spec, operation, mm, h4, param, media, parameters, json, form) ==
    IF form
    THEN convertOperationParametersForm(f, operation, resolveReference([mm EXCEPT !.h = Put(h4, param.id, "schema",
                                                    Get(h4, media, "schema"))],
                               spec, Get(h4, media, "schema"), TRUE),
              param, parameters)
    ELSE convertOperationParametersPushed(f, operation, mm,
                IF json THEN Put(h4, param.id, "schema", Get(h4, media, "schema"))
                ELSE convertOperationParametersBinary(Del(h4, param.id, "type"), param, media),
                param, parameters)

convertOperationParametersConsumes(operation, h3, param, mediaTypes, form) ==
    Put(Put(Append(Del(h3, param.id, "content"),
                   ArrNode(<<>> \o [i \in 1..Len(mediaTypes) |-> Str(mediaTypes[i])])),
            operation.id, "consumes", Obj(Len(h3) + 1)),
        param.id, "in", IF form THEN Str("formData") ELSE Str("body"))

\* contentKey = getSupportedMimeTypes(content)[0]; content[contentKey] or
\* content[mediaRanges[0]]
convertOperationParametersMedia(f, spec, operation, mm, h3, param, content, mediaRanges, contentKey) ==
    IF Nullish(Get(h3, content, IF contentKey # "undefined" THEN contentKey
                                ELSE IF Len(mediaRanges) > 0 THEN mediaRanges[1]
                                ELSE "undefined"))
    THEN Throw(mm, "TypeError")
    ELSE convertOperationParametersBranch(f, spec, operation, mm,
                convertOperationParametersConsumes(operation, h3, param,
                         SelectSeq(mediaRanges, LAMBDA range : IndexOf(range, "*") = 0),
                         SeqHas(SUPPORTED_MIME_TYPES, contentKey)),
                param,
                Get(h3, content, IF contentKey # "undefined" THEN contentKey
                                 ELSE IF Len(mediaRanges) > 0 THEN mediaRanges[1]
                                 ELSE "undefined"),
                Get(h3, operation, "parameters"),
                contentKey # "undefined",
                SeqHas(SUPPORTED_MIME_TYPES, contentKey))

convertOperationParametersFirst(supported) == IF Len(supported) > 0 THEN supported[1] ELSE "undefined"

\* h3: the heap after param.name = "body"
convertOperationParametersContent(f, spec, operation, mm, h3, param, content) ==
    IF ~Truthy(content) \/ Len(ForIn(h3, content)) = 0
    THEN convertOperationParametersFinish(f, operation, [mm EXCEPT !.h = h3])
    ELSE convertOperationParametersMedia(f, spec, operation, mm, h3, param, content,
               SelectSeq(ForIn(h3, content),
                         LAMBDA mediaRange : IndexOf(mediaRange, "/") > 1),
               convertOperationParametersFirst(getSupportedMimeTypes(h3, content)))

convertOperationParametersBody(f, spec, operation, mm, param) ==
    convertOperationParametersContent(f, spec, operation, mm, Put(mm.h, param.id, "name", Str("body")), param,
            Get(mm.h, param, "content"))

\* r1: after this.resolveReference(this.spec, operation.requestBody, true)
convertOperationParametersResolved(f, spec, operation, r1, requestBody, dref) ==
    IF r1.err # "" THEN r1
    ELSE IF Truthy(dref) /\ ~IsStr(dref) THEN Throw(r1, "TypeError")
    ELSE IF Truthy(dref) /\ ~StartsWith(dref.s, "#")
    THEN Throw(r1, "ExternalRefError")
    ELSE IF ~IsObj(r1.ret) THEN Throw(r1, "TypeError")
    ELSE convertOperationParametersBody(f, spec, operation, r1, r1.ret)

\* operation.requestBody.content[type].schema.$ref, when there is one
convertOperationParametersDataRef(hh, data) ==
    IF Truthy(data) /\ Truthy(Get(hh, data, "schema"))
    THEN Get(hh, Get(hh, data, "schema"), "$ref") ELSE Undef

convertOperationParametersData(hh, content) == Get(hh, content, convertOperationParametersFirst(getSupportedMimeTypes(hh, content)))

convertOperationParametersRequestBody(f, spec, operation, r1, requestBody) ==
    convertOperationParametersResolved(f, spec, operation, r1, requestBody,
             convertOperationParametersDataRef(r1.h, convertOperationParametersData(r1.h, Get(r1.h, requestBody, "content"))))

\* h1: the heap after operation.parameters = operation.parameters || []
convertOperationParametersEnter(m, f, spec, operation, h1, requestBody) ==
    IF ~Truthy(requestBody)
    THEN Call([m EXCEPT !.h = h1], [f EXCEPT !.pc = "end"],
              ConvertParametersCall(operation))
    ELSE convertOperationParametersRequestBody(f, spec, operation, resolveReference([m EXCEPT !.h = h1], spec, requestBody, TRUE),
                     requestBody)

convertOperationParameters(m, f) ==
    LET h == m.h
        spec == m.spec
        operation == f.operation
    IN  CASE f.pc = "enter" ->
                IF ~IsObj(operation) THEN Throw(m, "TypeError")
                ELSE IF Truthy(Get(h, operation, "parameters"))
                THEN convertOperationParametersEnter(m, f, spec, operation, h, Get(h, operation, "requestBody"))
                ELSE convertOperationParametersEnter(m, f, spec, operation, Put(Append(h, EmptyArr), operation.id, "parameters",
                               Obj(Len(h) + 1)),
                           Get(h, operation, "requestBody"))
          [] f.pc = "schemaDone" -> convertOperationParametersFinish(f, operation, m)
          [] f.pc = "end" -> Return(m, Undef)

\* the headers of the response, then delete response.content
convertResponsesHeaders(f, spec, mm, response) ==
    LET headers == Get(mm.h, response, "headers")
        hk == IF Truthy(headers) THEN ForIn(mm.h, headers) ELSE <<>>
        RECURSIVE Each(_, _)
        \* resolved.type = resolved.schema.type; ...; delete resolved.schema
        Typed(hr, resolved, schema) ==
            IF Truthy(schema)
            THEN Del(Put(Put(hr, resolved.id, "type", Get(hr, schema, "type")),
                         resolved.id, "format", Get(hr, schema, "format")),
                     resolved.id, "schema")
            ELSE hr
        \* r: after this.resolveReference(this.spec, headers[header], true)
        Header(r, i) ==
            IF r.err # "" THEN r
            ELSE IF Nullish(r.ret) THEN Throw(r, "TypeError")
            ELSE Each([r EXCEPT !.h = Put(Typed(r.h, r.ret, Get(r.h, r.ret, "schema")),
                                          headers.id, hk[i], r.ret)],
                      i + 1)
        Each(m2, i) ==
            IF i > Len(hk) \/ m2.err # "" THEN m2
            ELSE Header(resolveReference(m2, spec, Get(m2.h, headers, hk[i]), TRUE), i)
        Done(m3) ==
            IF m3.err # "" THEN m3
            ELSE Goto([m3 EXCEPT !.h = IF IsObj(response)
                                        THEN Del(m3.h, response.id, "content")
                                        ELSE m3.h],
                      [f EXCEPT !.pc = "next"])
    IN  Done(Each(mm, 1))

\* the body of the loop for the i-th status code, up to the call of
\* convertSchema; m1: after operation.responses[code] = response
convertResponsesStored(f, spec, operation, m1, response, i) ==
    LET content == Get(m1.h, response, "content")
        ranges == ForIn(m1.h, content)
        toHeaders == [f EXCEPT !.pc = "headers", !.i = i, !.response = response]
        RECURSIVE Media(_, _)
        \* h1: the heap after operation.produces has the media type
        Item(st, h1, j, mediaType, item) ==
            LET example == Get(h1, item, "example")
                examples == Get(h1, response, "examples")
                h2 == IF ~Truthy(example) THEN h1
                      ELSE IF Truthy(examples)
                      THEN Put(h1, examples.id, mediaType, example)
                      ELSE Put(Put(Append(h1, EmptyNode), response.id, "examples",
                                   Obj(Len(h1) + 1)),
                               Len(h1) + 1, mediaType, example)
            IN  IF \/ Nullish(item)
                   \/ Truthy(example) /\ Truthy(examples) /\ ~IsObj(examples)
                THEN [st EXCEPT !.m = Throw(st.m, "TypeError")]
                ELSE Media([m   |-> [st.m EXCEPT !.h = h2],
                            any |-> IF Truthy(st.any) THEN st.any
                                    ELSE Get(h1, item, "schema"),
                            json |-> IF ~Truthy(st.json) /\ isJsonMimeType(mediaType)
                                     THEN Get(h1, item, "schema") ELSE st.json],
                           j + 1)
        Produced(st, h1, j, mediaType) ==
            Item(st, h1, j, mediaType, Get(h1, content, ranges[j]))
        Range(st, hh, j, mediaType, produces) ==
            IF Truthy(produces) /\ ~IsArr(hh, produces)
            THEN [st EXCEPT !.m = Throw(st.m, "TypeError")]
            ELSE Produced(st,
                          IF ~Truthy(produces)
                          THEN Put(Append(hh, ArrNode(<<Str(mediaType)>>)),
                                   operation.id, "produces", Obj(Len(hh) + 1))
                          ELSE IF ~SeqHas(Elems(hh, produces), Str(mediaType))
                          THEN Push(hh, produces, Str(mediaType))
                          ELSE hh,
                          j, mediaType)
        \* st: [m, any, json]
        Media(st, j) ==
            IF j > Len(ranges) \/ st.m.err # "" THEN st
            ELSE Range(st, st.m.h, j,
                       IF IndexOf(ranges[j], "*") = 0 THEN ranges[j]
                       ELSE "application/octet-stream",
                       Get(st.m.h, operation, "produces"))
        \* rr: after this.resolveReference(this.spec, response.schema, true)
        Resolved(rr, chosen) ==
            IF rr.err # "" THEN rr
            ELSE Call(rr, toHeaders, ConvertSchemaCall(chosen, Str("response")))
        Schema(ms, chosen) ==
            Resolved(resolveReference([ms EXCEPT !.h = Put(ms.h, response.id, "schema",
                                                           chosen)],
                                      spec, chosen, TRUE),
                     chosen)
        Chosen(st) ==
            IF st.m.err # "" THEN st.m
            ELSE IF ~Truthy(st.any) THEN Goto(st.m, toHeaders)
            ELSE Schema(st.m, IF Truthy(st.json) THEN st.json ELSE st.any)
    IN  IF Nullish(response) THEN Throw(m1, "TypeError")
        ELSE IF ~IsObj(response) THEN Goto(m1, [f EXCEPT !.pc = "next", !.i = i])
        ELSE IF ~Truthy(content) THEN Goto(m1, toHeaders)
        ELSE Chosen(Media([m |-> m1, any |-> Null, json |-> Null], 1))

\* r: after this.resolveReference(this.spec, operation.responses[code], true)
convertResponsesResponse(f, spec, operation, responses, r, i) ==
    IF r.err # "" THEN r
    ELSE convertResponsesStored(f, spec, operation, [r EXCEPT !.h = Put(r.h, responses.id, f.codes[i], r.ret)], r.ret, i)

convertResponsesCode(m, f, spec, operation, responses, i) == convertResponsesResponse(f, spec, operation, responses, resolveReference(m, spec, Get(m.h, responses, f.codes[i]), TRUE), i)

convertResponses(m, f) ==
    LET spec == m.spec
        operation == f.operation
        responses == Get(m.h, operation, "responses")
    IN  CASE f.pc = "enter" ->
                Goto(m, [f EXCEPT !.pc = "next", !.codes = ForIn(m.h, responses), !.i = 0])
          [] f.pc = "next" ->
                IF f.i + 1 > Len(f.codes) THEN Return(m, Undef) ELSE convertResponsesCode(m, f, spec, operation, responses, f.i + 1)
          [] f.pc = "headers" -> convertResponsesHeaders(f, spec, m, f.response)

RECURSIVE convertDiscriminatorMappingEach(_, _, _, _, _)
convertDiscriminatorMappingisName(nameChars, s) == Len(s) > 0 /\ \A i \in 1..Len(s) : Includes(nameChars, SubSeq(s, i, i))

\* try { schema = this.resolveReference(this.spec, { $ref: ref }, false) }
\* catch { }: the machine after it, ret undefined when it threw
convertDiscriminatorMappingCaught(lit, r) == [lit EXCEPT !.h = r.h, !.ret = r.ret]

convertDiscriminatorMappingLiteral(lit) == convertDiscriminatorMappingCaught(lit, resolveReference(lit, lit.spec, lit.ret, FALSE))

convertDiscriminatorMappingTry(mm, ref) ==
    convertDiscriminatorMappingLiteral(New(mm, [arr |-> FALSE, keys |-> <<"$ref">>, val |-> ("$ref" :> Str(ref))]))

\* t2: after the second attempt; its ret is schema
convertDiscriminatorMappingTagged(mapping, payloads, nameChars, t2, i) ==
    IF ~Truthy(t2.ret) THEN convertDiscriminatorMappingEach(mapping, payloads, nameChars, t2, i + 1)
    ELSE IF ~IsObj(t2.ret) THEN Throw(t2, "TypeError")
    ELSE convertDiscriminatorMappingEach(mapping, payloads, nameChars, [t2 EXCEPT !.h = Put(Put(t2.h, t2.ret.id, "x-discriminator-value",
                                       Str(payloads[i])),
                                   t2.ret.id, "x-ms-discriminator-value",
                                   Str(payloads[i]))],
              i + 1)

\* t1: after the first attempt
convertDiscriminatorMappingSecond(mapping, payloads, nameChars, t1, schemaNameOrRef, i) ==
    convertDiscriminatorMappingTagged(mapping, payloads, nameChars, IF ~Truthy(t1.ret) THEN convertDiscriminatorMappingTry(t1, schemaNameOrRef.s) ELSE t1, i)

convertDiscriminatorMappingFirst(mapping, payloads, nameChars, mm, schemaNameOrRef, i) ==
    IF ~IsStr(schemaNameOrRef) THEN convertDiscriminatorMappingEach(mapping, payloads, nameChars, mm, i + 1)
    ELSE convertDiscriminatorMappingSecond(mapping, payloads, nameChars, IF convertDiscriminatorMappingisName(nameChars, schemaNameOrRef.s)
                THEN convertDiscriminatorMappingTry(mm, "#/components/schemas/" \o schemaNameOrRef.s)
                ELSE [mm EXCEPT !.ret = Undef],
                schemaNameOrRef, i)

convertDiscriminatorMappingEach(mapping, payloads, nameChars, mm, i) ==
    IF i > Len(payloads) \/ mm.err # "" THEN mm
    ELSE convertDiscriminatorMappingFirst(mapping, payloads, nameChars, mm, Get(mm.h, mapping, payloads[i]), i)

convertDiscriminatorMappingOver(m, done) == IF done.err # "" THEN done ELSE [done EXCEPT !.ret = m.ret]

convertDiscriminatorMapping(m, mapping) ==
    LET payloads == ForIn(m.h, mapping)
        nameChars == "abcdefghijklmnopqrstuvwxyzABCDEFGHIJKLMNOPQRSTUVWXYZ0123456789._-"
    IN  convertDiscriminatorMappingOver(m, convertDiscriminatorMappingEach(mapping, payloads, nameChars, m, 1))

RECURSIVE convertSchemaNextProp(_, _, _, _, _, _)
\* nullable and deprecated, then the return
convertSchemaDeprecated(def, h1, deprecated) ==
    IF deprecated = Undef THEN h1
    ELSE Del(IF Get(h1, def, "x-deprecated") = Undef
             THEN Put(h1, def.id, "x-deprecated", deprecated) ELSE h1,
             def.id, "deprecated")

convertSchemaNullable(def, h1) == convertSchemaDeprecated(def, h1, Get(h1, def, "deprecated"))

convertSchemaFinish(def, mm) ==
    Return([mm EXCEPT !.h = convertSchemaNullable(def, IF Truthy(Get(mm.h, def, "nullable"))
                                     THEN Del(Put(mm.h, def.id, "x-nullable", Bool(TRUE)),
                                              def.id, "nullable")
                                     ELSE mm.h)],
           Undef)

\* case "array"
convertSchemaItems(f, def, dir, mm) ==
    IF Truthy(Get(mm.h, def, "items"))
    THEN Call(mm, [f EXCEPT !.pc = "items"],
              ConvertSchemaCall(Get(mm.h, def, "items"), dir))
    ELSE convertSchemaFinish(def, mm)

\* the loop over def.properties from the i-th key on, up to the next
\* call of convertSchema
convertSchemaNextProp(f, def, dir, mm, keys, i) ==
    LET properties == Get(mm.h, def, "properties")
        rest == {j \in i..Len(keys) : IsObj(properties)
                                      /\ HasKey(mm.h, properties.id, keys[j])}
    IN  IF rest = {} THEN convertSchemaItems(f, def, dir, mm)
        ELSE LET j == CHOOSE x \in rest : \A y \in rest : x <= y
                 prop == Get(mm.h, properties, keys[j])
             IN  IF Nullish(prop) THEN Throw(mm, "TypeError")
                 ELSE IF Get(mm.h, prop, "writeOnly") = Bool(TRUE) /\ dir = Str("response")
                 THEN convertSchemaNextProp(f, def, dir, [mm EXCEPT !.h = Del(mm.h, properties.id, keys[j])],
                               keys, j + 1)
                 ELSE Call(mm, [f EXCEPT !.pc = "prop", !.keys = keys, !.i = j],
                           ConvertSchemaCall(prop, dir))

\* the switch on def.type; m2: after def.discriminator = discriminator.propertyName
convertSchemaTyped(f, def, dir, m2, type) ==
    IF type = Str("object") /\ Truthy(Get(m2.h, def, "properties"))
    THEN convertSchemaNextProp(f, def, dir, m2, ForIn(m2.h, Get(m2.h, def, "properties")), 1)
    ELSE IF type \in {Str("object"), Str("array")} THEN convertSchemaItems(f, def, dir, m2)
    ELSE convertSchemaFinish(def, m2)

\* m1: after this.convertDiscriminatorMapping(def.discriminator.mapping)
convertSchemaMapped(f, def, dir, m1, discriminator) ==
    IF m1.err # "" THEN m1
    ELSE convertSchemaTyped(f, def, dir, IF Truthy(discriminator)
               THEN [m1 EXCEPT !.h = Put(m1.h, def.id, "discriminator",
                                         Get(m1.h, discriminator, "propertyName"))]
               ELSE m1,
               Get(m1.h, def, "type"))

\* the discriminator and the switch on def.type
convertSchemaAfterAllOf(f, def, dir, mm) ==
    LET discriminator == Get(mm.h, def, "discriminator")
        mapping == Get(mm.h, discriminator, "mapping")
    IN  convertSchemaMapped(f, def, dir, IF Truthy(discriminator) /\ Truthy(mapping)
               THEN convertDiscriminatorMapping(mm, mapping) ELSE mm,
               discriminator)

\* the loop over def.allOf from the i-th index on
convertSchemaNextAll(f, def, dir, mm, keys, i) ==
    IF i > Len(keys) THEN convertSchemaAfterAllOf(f, def, dir, mm)
    ELSE Call(mm, [f EXCEPT !.pc = "allOf", !.keys = keys, !.i = i],
              ConvertSchemaCall(Get(mm.h, Get(mm.h, def, "allOf"), keys[i]), dir))

convertSchema(m, f) ==
    LET def == f.def
        dir == f.dir
    IN  CASE f.pc = "enter" ->
                IF Nullish(def) THEN Throw(m, "TypeError")
                ELSE IF ~IsObj(def) THEN Return(m, Undef)
                ELSE LET gone(h, k) == IF Truthy(Get(h, def, k))
                                       THEN DelAll(h, def.id,
                                                   {k} \cup (IF Truthy(Get(h, def, "discriminator"))
                                                             THEN {"discriminator"} ELSE {}))
                                       ELSE h
                         m1 == [m EXCEPT !.h = gone(gone(m.h, "oneOf"), "anyOf")]
                         allOf == Get(m1.h, def, "allOf")
                     IN  convertSchemaNextAll(f, def, dir, m1, IF Truthy(allOf) THEN ForIn(m1.h, allOf) ELSE <<>>, 1)
          [] f.pc = "allOf" -> convertSchemaNextAll(f, def, dir, m, f.keys, f.i + 1)
          [] f.pc = "prop" ->
                LET prop == Get(m.h, Get(m.h, def, "properties"), f.keys[f.i])
                IN  IF Nullish(prop) THEN Throw(m, "TypeError")
                    ELSE convertSchemaNextProp(f, def, dir, [m EXCEPT !.h = IF IsObj(prop) THEN Del(m.h, prop.id, "writeOnly")
                                                  ELSE m.h],
                                  f.keys, f.i + 1)
          [] f.pc = "items" -> convertSchemaFinish(def, m)

convertSchemas(m, f) ==
    LET spec == m.spec
        Next(mm, keys, i) ==
            LET components == Get(mm.h, spec, "components")
            IN  IF i > Len(keys)
                THEN Return([mm EXCEPT !.h = IF IsObj(components)
                                             THEN Del(mm.h, components.id, "schemas") ELSE mm.h],
                            Undef)
                ELSE Call(mm, [f EXCEPT !.pc = "each", !.keys = keys, !.i = i],
                          ConvertSchemaCall(Get(mm.h, Get(mm.h, spec, "definitions"), keys[i]),
                                            Undef))
    IN  CASE f.pc = "enter" ->
                LET schemas == Get(m.h, Get(m.h, spec, "components"), "schemas")
                IN  Next([m EXCEPT !.h = Put(m.h, spec.id, "definitions", schemas)],
                         ForIn(m.h, schemas), 1)
          [] f.pc = "each" -> Next(m, f.keys, f.i + 1)

\* the schemes moved, none of them downgraded
convertSecurityDefinitionsMoved(m) ==
    IF ~IsObj(Get(m.h, m.spec, "components")) THEN Throw(m, "TypeError")
    ELSE [m EXCEPT !.h = Del(Put(m.h, m.spec.id, "securityDefinitions",
                                 Get(m.h, Get(m.h, m.spec, "components"), "securitySchemes")),
                             Get(m.h, m.spec, "components").id, "securitySchemes")]

convertSecurityDefinitions(m) ==
    LET spec == m.spec
        components == Get(m.h, spec, "components")
        defs == Get(m.h, components, "securitySchemes")
        keys == ForIn(m.h, defs)
        RECURSIVE Each(_, _)
        \* security.flow = ...; security.authorizationUrl = flow.authorizationUrl; ...
        Flow(h, i, security, flowName, flow) ==
            IF Nullish(flow) THEN [ok |-> FALSE, h |-> h]
            ELSE Each(Del(PutAll(h, security.id,
                                 <<"flow", "authorizationUrl", "tokenUrl", "scopes">>,
                                 LAMBDA k :
                                     CASE k = "flow" ->
                                              IF flowName = Str("clientCredentials")
                                              THEN Str("application")
                                              ELSE IF flowName = Str("authorizationCode")
                                              THEN Str("accessCode")
                                              ELSE flowName
                                       [] OTHER -> Get(h, flow, k)),
                          security.id, "flows"),
                      i + 1)
        \* fk: Object.keys(security.flows)
        OAuth(h, i, security, flows, fk) ==
            IF Nullish(flows) THEN [ok |-> FALSE, h |-> h]
            ELSE Flow(h, i, security, IF Len(fk) > 0 THEN Str(fk[1]) ELSE Undef,
                      Get(h, flows, IF Len(fk) > 0 THEN fk[1] ELSE "undefined"))
        Scheme(h, i, security, type, scheme) ==
            IF type = Str("http") /\ scheme = Str("basic")
            THEN Each(Del(Put(h, security.id, "type", Str("basic")), security.id, "scheme"),
                      i + 1)
            ELSE IF type = Str("http") /\ scheme = Str("bearer")
            THEN Each(DelAll(PutAll(h, security.id, <<"type", "name", "in">>,
                                    LAMBDA k : CASE k = "type" -> Str("apiKey")
                                                 [] k = "name" -> Str("Authorization")
                                                 [] k = "in" -> Str("header")),
                             security.id, {"scheme", "bearerFormat"}),
                      i + 1)
            ELSE IF type = Str("oauth2")
            THEN OAuth(h, i, security, Get(h, security, "flows"),
                       ForIn(h, Get(h, security, "flows")))
            ELSE Each(h, i + 1)
        Security(h, i, security) ==
            IF Nullish(security) THEN [ok |-> FALSE, h |-> h]
            ELSE IF ~IsObj(security) THEN Each(h, i + 1)
            ELSE Scheme(h, i, security, Get(h, security, "type"), Get(h, security, "scheme"))
        \* [ok, h]
        Each(h, i) ==
            IF i > Len(keys) THEN [ok |-> TRUE, h |-> h]
            ELSE Security(h, i, Get(h, defs, keys[i]))
        Over(done) ==
            IF ~done.ok THEN Throw(m, "TypeError")
            ELSE [m EXCEPT !.h = IF IsObj(components)
                                 THEN Del(done.h, components.id, "securitySchemes")
                                 ELSE done.h]
    IN  Over(Each(Put(m.h, spec.id, "securityDefinitions", defs), 1))

\* a reference left as it was written
fixRefKept(ref) == ref

\* ref.replace("#/components/schemas/", "#/definitions/")
\*    .replace("#/components/", "#/x-components/")
fixRef(ref) ==
    ReplaceFirstStr(ReplaceFirstStr(ref, "#/components/schemas/", "#/definitions/"),
                    "#/components/", "#/x-components/")

\* fixRefs(obj) on a document without cycles: every object reached without
\* passing a "$ref" key has its "$ref" rewritten
fixRefs(m, obj) ==
    LET R == IF IsObj(obj) THEN Reach(m.h, {obj.id}, {"$ref"}) ELSE {}
        refs == {i \in R : ~m.h[i].arr /\ HasKey(m.h, i, "$ref")}
    IN  IF \E i \in refs : ~IsStr(m.h[i].val["$ref"]) THEN Throw(m, "TypeError")
        ELSE [m EXCEPT !.h = <<>> \o [i \in 1..Len(m.h) |->
                                 IF i \in refs
                                 THEN [m.h[i] EXCEPT !.val["$ref"] = Str(fixRef(@.s))]
                                 ELSE m.h[i]]]

\* the activation record of convertOperations()
ConvertOperationsCall ==
    [fn |-> "convertOperations", pc |-> "enter", paths |-> Undef, pathKeys |-> <<>>, i |-> 0,
     pathObject |-> Undef, methods |-> <<>>, j |-> 0, operation |-> Undef]

\* the loop over pathKeys from the i-th on, up to the call of
\* convertParameters
\* r: after this.resolveReference(this.spec, paths[path], true)
convertOperationsPath(f, r, paths, pathKeys, i) ==
    IF r.err # "" THEN r
    ELSE Call([r EXCEPT !.h = Put(r.h, paths.id, pathKeys[i], r.ret)],
              [f EXCEPT !.pc = "methods", !.paths = paths,
                        !.pathKeys = pathKeys, !.i = i, !.pathObject = r.ret],
              ConvertParametersCall(r.ret))

convertOperationsNextPath(f, spec, mm, paths, pathKeys, i) ==
    IF i > Len(pathKeys) THEN Return(mm, Undef)
    ELSE convertOperationsPath(f, resolveReference(mm, spec, Get(mm.h, paths, pathKeys[i]), TRUE),
              paths, pathKeys, i)

\* the loop over the keys of pathObject from the j-th on, up to the
\* call of convertOperationParameters
\* r: after this.resolveReference(this.spec, pathObject[method], true)
convertOperationsOperation(f, r, methods, x) ==
    IF r.err # "" THEN r
    ELSE Call([r EXCEPT !.h = Put(r.h, f.pathObject.id, methods[x], r.ret)],
              [f EXCEPT !.pc = "responses", !.methods = methods, !.j = x,
                        !.operation = r.ret],
              [fn |-> "convertOperationParameters", pc |-> "enter",
               operation |-> r.ret])

convertOperationsMethod(f, spec, mm, methods, x) ==
    convertOperationsOperation(f, resolveReference(mm, spec, Get(mm.h, f.pathObject, methods[x]), TRUE),
              methods, x)

convertOperationsNextMethod(f, spec, mm, methods, j) ==
    LET pathObject == f.pathObject
        rest == {x \in j..Len(methods) : /\ SeqHas(HTTP_METHODS, methods[x])
                                         /\ HasKey(mm.h, pathObject.id, methods[x])}
    IN  IF rest = {} THEN convertOperationsNextPath(f, spec, mm, f.paths, f.pathKeys, f.i + 1)
        ELSE convertOperationsMethod(f, spec, mm, methods, CHOOSE a \in rest : \A b \in rest : a <= b)

convertOperations(m, f) ==
    LET spec == m.spec
    IN  CASE f.pc = "enter" ->
                LET paths == Get(m.h, spec, "paths")
                IN  IF ~Truthy(paths) THEN Return(m, Undef)
                    ELSE convertOperationsNextPath(f, spec, m, paths, ForIn(m.h, paths), 1)
          [] f.pc = "methods" -> convertOperationsNextMethod(f, spec, m, ForIn(m.h, f.pathObject), 1)
          [] f.pc = "responses" ->
                Call(m, [f EXCEPT !.pc = "operation"],
                     [fn |-> "convertResponses", pc |-> "enter", operation |-> f.operation,
                      codes |-> <<>>, i |-> 0, response |-> Undef])
          [] f.pc = "operation" -> convertOperationsNextMethod(f, spec, m, f.methods, f.j + 1)

\* the activation record of convert() with this.strict = strict
ConvertCall(strict) == [fn |-> "convert", pc |-> "enter", strict |-> strict]

\* if (this.strict) sanitizeSwagger2(this.spec, ...); return this.spec
convertThenStrict(f, spec, mm) ==
    IF mm.err # "" THEN mm
    ELSE IF f.strict
    THEN Call([mm EXCEPT !.pass = 0, !.flattenedAllOf = 0, !.removedKeys = 0,
                         !.removedExtensions = 0],
              [f EXCEPT !.pc = "end"], SanitizeCall)
    ELSE Return(mm, spec)

\* m1: after this.convertInfos()
convertThenInfos(f, m1) ==
    IF m1.err # "" THEN m1
    ELSE Call(m1, [f EXCEPT !.pc = "operations"], ConvertOperationsCall)

\* m1: after this.convertSecurityDefinitions();
\* this.spec["x-components"] = this.spec.components; delete this.spec.components;
\* fixRefs(this.spec)
convertThenSecurity(spec, m1) ==
    IF m1.err # "" THEN m1
    ELSE fixRefs([m1 EXCEPT !.h = Del(Put(m1.h, spec.id, "x-components",
                                          Get(m1.h, spec, "components")),
                                      spec.id, "components")],
                 spec)

convert(m, f) ==
    LET spec == m.spec
    IN  CASE f.pc = "enter" ->
                IF ~IsObj(spec) THEN Throw(m, "TypeError")
                ELSE convertThenInfos(f, convertInfos([m EXCEPT !.h = Put(m.h, spec.id, "swagger", Str("2.0"))]))
          [] f.pc = "operations" ->
                IF Truthy(Get(m.h, spec, "components"))
                THEN Call(m, [f EXCEPT !.pc = "schemas"],
                          [fn |-> "convertSchemas", pc |-> "enter", keys |-> <<>>, i |-> 0])
                ELSE convertThenStrict(f, spec, m)
          [] f.pc = "schemas" -> convertThenStrict(f, spec, convertThenSecurity(spec, convertSecurityDefinitions(m)))
          [] f.pc = "end" -> Return(m, spec)

(***************************************************************************)
(* Running the machine.                                                    *)
(***************************************************************************)
\* the effect of the activation on top of the stack up to its next call or return
Step(m) ==
    LET f == m.stk[Len(m.stk)]
    IN  CASE f.fn = "derefNode" -> derefNode(m, f)
          [] f.fn = "derefRef"  -> derefRef(m, f)
          [] f.fn = "flattenAllOf" -> flattenAllOf(m, f)
          [] f.fn = "sanitizeSwagger2" -> sanitizeLoop(m, f)
          [] f.fn = "walkSchemas" -> walkSchemas(m, f)
          [] f.fn = "walkEach" -> walkEach(m, f)
          [] f.fn = "walkPathItem" -> walkPathItem(m, f)
          [] f.fn = "walkOperation" -> walkOperation(m, f)
          [] f.fn = "convert" -> convert(m, f)
          [] f.fn = "convertOperations" -> convertOperations(m, f)
          [] f.fn = "convertOperationParameters" -> convertOperationParameters(m, f)
          [] f.fn = "convertParameters" -> convertParameters(m, f)
          [] f.fn = "convertResponses" -> convertResponses(m, f)
          [] f.fn = "convertSchema" -> convertSchema(m, f)
          [] f.fn = "convertSchemas" -> convertSchemas(m, f)

Done(m) == m.err # "" \/ Len(m.stk) = 0

RECURSIVE RunFor(_, _)
\* up to 2^k steps
RunFor(m, k) ==
    LET Half(m1) == IF Done(m1) THEN m1 ELSE RunFor(m1, k - 1)
    IN  IF Done(m) THEN m
        ELSE IF k = 0 THEN Step(m)
        ELSE Half(RunFor(m, k - 1))

\* the call g runs to its return or to an exception; a run that is not over
\* after 2^MaxRunLog steps stands for a call that never returns
Run(m, g) ==
    LET Over(r) == IF Done(r) THEN r ELSE Throw(r, "Hang")
    IN  Over(RunFor([m EXCEPT !.stk = <<g>>], MaxRunLog))

dereferenceSwagger2(m, spec, dropDefinitions) ==
    IF ~Truthy(spec) \/ ~IsObj(spec) THEN [m EXCEPT !.ret = spec]
    ELSE LET Walked(m1) ==
                 IF m1.err # "" THEN m1
                 ELSE [m1 EXCEPT !.ret = spec,
                                 !.h = IF dropDefinitions
                                       THEN DelAll(@, spec.id,
                                                   {"definitions", "parameters", "responses"})
                                       ELSE @]
         IN  Walked(Run([m EXCEPT !.spec = spec, !.cache = EmptyVal, !.resolving = {},
                                  !.replacedRefs = 0, !.missingRefs = 0, !.cycleRefs = 0],
                        DerefNodeCall(spec)))

sanitizeSwagger2(m, spec, strict) ==
    IF ~strict \/ ~Truthy(spec) \/ ~IsObj(spec) THEN [m EXCEPT !.ret = spec]
    ELSE Run([m EXCEPT !.spec = spec, !.pass = 0, !.flattenedAllOf = 0,
                       !.removedKeys = 0, !.removedExtensions = 0],
             SanitizeCall)

\* normalizeOpenapi31(spec, warnings, collectWarnings, log, debug): warnings is
\* an array exactly when collectWarnings is set
\* a document left as it is (the removal below, left out)
keepJsonSchemaDialect(m, spec, collectWarnings) == m

\* if (spec.jsonSchemaDialect) { delete ...; if (shouldWarn) warnings.push(...) }
\* runs for every document, before the version test's early return
removeJsonSchemaDialect(m, spec, collectWarnings) ==
    IF Truthy(Get(m.h, spec, "jsonSchemaDialect"))
    THEN LET d == [m EXCEPT !.h = Del(@, spec.id, "jsonSchemaDialect")]
         IN  IF collectWarnings
             THEN [d EXCEPT !.warn = Append(@, "Removed jsonSchemaDialect (not supported in OpenAPI 3.0).")]
             ELSE d
    ELSE m

normalizeOpenapi31(m, spec, collectWarnings) ==
    LET openapi == Get(m.h, spec, "openapi")
        openapiVersion == IF Truthy(openapi) THEN StringOf(m.h, openapi) ELSE ""
        is31 == StartsWith(openapiVersion, "3.1")
        say(mm, s) == IF collectWarnings THEN [mm EXCEPT !.warn = Append(@, s)] ELSE mm
        m1 == IF is31
              THEN say([m EXCEPT !.h = Put(@, spec.id, "openapi", Str("3.0.3"))],
                       "Downgraded openapi version 3.1.x to 3.0.3 for conversion.")
              ELSE m
        m2 == removeJsonSchemaDialect(m1, spec, collectWarnings)
        Walked(r) == IF r.err # "" THEN r ELSE [r EXCEPT !.ret = spec]
    IN  IF ~is31 THEN [m2 EXCEPT !.ret = spec]
        ELSE Walked(Run([m2 EXCEPT !.collect = collectWarnings], WalkSchemasCall(spec)))

(***************************************************************************)
(* Walking a value along a path of raw keys.                               *)
\* convertOpenapi3ToSwagger2(spec, { strict })
convertOpenapi3ToSwagger2(m, spec, strict) ==
    Run([m EXCEPT !.spec = spec], ConvertCall(strict))

finalizeSwaggerSpec(m, spec) ==
    LET fresh == ~Truthy(spec) \/ ~IsObj(spec)
        output == IF fresh THEN Obj(Len(m.h) + 1) ELSE spec
        \* if (!output.paths) output.paths = {}
        Paths(h4) ==
            [m EXCEPT !.h = IF Truthy(Get(h4, output, "paths")) THEN h4
                            ELSE Put(Append(h4, EmptyNode), output.id, "paths", Obj(Len(h4) + 1)),
                      !.ret = output]
        Version(h3, info) ==
            Paths(IF Truthy(Get(h3, info, "version")) THEN h3
                  ELSE Put(h3, info.id, "version", Str("0.0.0")))
        Title(h2, info) ==
            IF ~IsObj(info) THEN Throw(m, "TypeError")
            ELSE Version(IF Truthy(Get(h2, info, "title")) THEN h2
                         ELSE Put(h2, info.id, "title", Str("API")),
                         info)
        Info(h2) == Title(h2, Get(h2, output, "info"))
        \* h1: the heap after output.swagger = "2.0"
        Swagger(h1) ==
            Info(IF Truthy(Get(h1, output, "info")) THEN h1
                 ELSE Put(Append(h1, [arr |-> FALSE, keys |-> <<"title", "version">>,
                                      val |-> ("title" :> Str("API")) @@
                                              ("version" :> Str("0.0.0"))]),
                          output.id, "info", Obj(Len(h1) + 1)))
    IN  Swagger(Put(IF fresh THEN Append(m.h, EmptyNode) ELSE m.h,
                    output.id, "swagger", Str("2.0")))

(***************************************************************************)
\* the value found by following raw keys from a value, key by key
RECURSIVE NodeAt(_, _, _)
NodeAt(h, v, path) ==
    IF Len(path) = 0 THEN v
    ELSE NodeAt(h, Get(h, v, Head(path)), Tail(path))

\* every proper prefix of the path leads to an object
RECURSIVE PathWalkable(_, _, _)
PathWalkable(h, v, path) ==
    IF Len(path) = 0 THEN TRUE
    ELSE IsObj(v) /\ PathWalkable(h, Get(h, v, Head(path)), Tail(path))

(***************************************************************************)
(* Specification SpecResolve: resolveReference applied to one node.        *)
(***************************************************************************)
PetSchema ==
    TM(<<
        <<"type", TS("object")>>,
        <<"required", TA(<<TS("name")>>)>>,
        <<"properties", TM(<< <<"name", TM(<< <<"type", TS("string")>> >>)>>,
                              <<"tag",  TM(<< <<"type", TS("string")>> >>)>> >>)>>
    >>)

ResolveDocs ==
    << TM(<< <<"openapi", TS("3.0.0")>>,
            <<"paths", TM(<< <<"/pets", TM(<< <<"get", TM(<< <<"summary", TS("list")>> >>)>> >>)>> >>)>>,
            <<"components", TM(<< <<"schemas", TM(<< <<"Pet", PetSchema>>,
                                                      <<"a/b", TM(<< <<"type", TS("string")>> >>)>>,
                                                      <<"t~1", TM(<< <<"type", TS("integer")>> >>)>> >>)>> >>)>> >>),
      TM(<< <<"openapi", TS("3.1.0")>>,
            <<"paths", TM(<< <<"/pets", TM(<< <<"get", TM(<< <<"summary", TS("all")>> >>)>> >>)>> >>)>>,
            <<"components", TM(<< <<"schemas", TM(<< <<"Pet", TM(<< <<"type", TS("string")>> >>)>>,
                                                      <<"a/b", PetSchema>> >>)>> >>)>> >>),
      TM(<< <<"swagger", TS("2.0")>>,
            <<"paths", TM(<<>>)>>,
            <<"components", TM(<< <<"schemas", TM(<< <<"t~1", PetSchema>> >>)>> >>)>> >>) >>

ResolvePaths ==
    { <<"components", "schemas", "Pet">>,
      <<"components", "schemas", "Pet", "properties", "name">>,
      <<"components", "schemas", "Pet", "required", "0">>,
      <<"components", "schemas", "a/b">>,
      <<"components", "schemas", "t~1">>,
      <<"paths", "/pets", "get">>,
      <<"components", "schemas", "Missing">>,
      <<"components", "parameters", "Limit">>,
      <<"components">> }

ExternalPointers ==
    { "other.yaml#/components/schemas/Pet",
      "https://example.com/pet.json",
      "components/schemas/Pet" }

\* the node handed to resolveReference: kind and, for a reference, its text
ResolveObjs ==
    { [kind |-> "local", ref |-> formatPath(p), path |-> p] : p \in ResolvePaths }
    \cup { [kind |-> "external", ref |-> r, path |-> <<>>] : r \in ExternalPointers }
    \cup { [kind |-> "noref", ref |-> "", path |-> <<>>],
           [kind |-> "emptyref", ref |-> "", path |-> <<>>],
           [kind |-> "undefined", ref |-> "", path |-> <<>>] }

ResolveObjTree(o) ==
    CASE o.kind = "noref"    -> TM(<< <<"type", TS("string")>>, <<"description", TS("d")>> >>)
      [] o.kind = "emptyref" -> TM(<< <<"$ref", TS("")>> >>)
      [] OTHER               -> TM(<< <<"$ref", TS(o.ref)>>, <<"description", TS("d")>> >>)

NoStats == [replacedRefs |-> 0, missingRefs |-> 0, cycleRefs |-> 0]

InitResolve ==
    \E d \in 1..Len(ResolveDocs), o \in ResolveObjs, c \in BOOLEAN :
        /\ heap = <<>>
        /\ root = Undef
        /\ pc = "load"
        /\ err = ""
        /\ ret = Undef
        /\ warnings = <<>>
        /\ stats = NoStats
        /\ arg = [doc |-> d, kind |-> o.kind, ref |-> o.ref, path |-> o.path,
                  clone |-> c, obj |-> Undef]

\* the parsed document and the node under test are laid out
LoadResolve ==
    /\ pc = "load"
    /\ LET a == Parse(<<>>, ResolveDocs[arg.doc])
           b == Parse(a.h, ResolveObjTree(arg))
       IN  /\ heap' = b.h
           /\ root' = a.v
           /\ arg' = [arg EXCEPT !.obj = IF arg.kind = "undefined" THEN Undef ELSE b.v]
    /\ pc' = "resolve"
    /\ UNCHANGED <<err, ret, warnings, stats>>

ResolveCall ==
    /\ pc = "resolve"
    /\ LET Returned(r) ==
               /\ heap' = r.h
               /\ err' = r.err
               /\ ret' = r.ret
       IN  Returned(resolveReference(Mach(heap), root, arg.obj, arg.clone))
    /\ pc' = "resolved"
    /\ UNCHANGED <<root, warnings, stats, arg>>

NextResolve == LoadResolve \/ ResolveCall

SpecResolve == InitResolve /\ [][NextResolve]_vars

C22_MissingKeyUndefined ==
    [][ pc = "resolve" /\ arg.kind = "local" /\ NodeAt(heap, root, arg.path) = Undef
        => err' = "" /\ ret' = Undef /\ heap' = heap
      ]_vars

(***************************************************************************)
(* Resolving references by hand, on the tree read from the input document: *)
(* a pointer denotes the key path whose escaped text it is; a reference    *)
(* node stands for its (expanded) target.                                  *)
(***************************************************************************)
Missing == [k |-> "none", v |-> Undef, f |-> EmptyVal]
Cut     == [k |-> "deep", v |-> Undef, f |-> EmptyVal]

RECURSIVE TreeAt(_, _)
TreeAt(t, path) ==
    IF Len(path) = 0 THEN t
    ELSE IF t.k \in {"m", "a"} /\ Head(path) \in DOMAIN t.f
         THEN TreeAt(t.f[Head(path)], Tail(path))
    ELSE Missing

RECURSIVE PathsOf(_)
\* every key path of a tree
PathsOf(t) ==
    {<<>>} \cup UNION { { <<key>> \o p : p \in PathsOf(t.f[key]) } : key \in DOMAIN t.f }

IsRefTree(t) ==
    /\ t.k = "m" /\ "$ref" \in DOMAIN t.f
    /\ t.f["$ref"].k = "s" /\ t.f["$ref"].v.t = "str" /\ t.f["$ref"].v.s # ""

\* the pointer text of every key path of a document
PointersOf(doc) == Explicit([p \in PathsOf(doc) \ {<<>>} |-> formatPath(p)])

HandTarget(doc, ptr, ref) ==
    IF \E p \in DOMAIN ptr : ptr[p] = ref
    THEN LET t == TreeAt(doc, CHOOSE p \in DOMAIN ptr : ptr[p] = ref)
         IN  IF t.k \in {"m", "a"} THEN t ELSE Missing
    ELSE Missing

RECURSIVE HandExpand(_, _, _, _, _)
\* sib: the sibling keys of a reference node are laid over its target;
\* fuel: how many references may still be followed inside one another
HandExpand(doc, ptr, t, sib, fuel) ==
    IF t.k \notin {"m", "a"} THEN t
    ELSE IF IsRefTree(t)
    THEN IF fuel = 0 THEN Cut
         ELSE LET e == HandExpand(doc, ptr, HandTarget(doc, ptr, t.f["$ref"].v.s),
                                  sib, fuel - 1)
                  over == (DOMAIN t.f) \ {"$ref"}
              IN  IF ~sib \/ e.k \notin {"m", "a"} THEN e
                  ELSE [e EXCEPT !.f = Explicit([key \in (DOMAIN e.f) \cup over |->
                                          IF key \in over
                                          THEN HandExpand(doc, ptr, t.f[key], sib, fuel)
                                          ELSE e.f[key]])]
    ELSE [t EXCEPT !.f = Explicit([key \in DOMAIN t.f |->
                                      HandExpand(doc, ptr, t.f[key], sib, fuel)])]

RECURSIVE TreeHas(_, _)
\* some node of the tree is of kind k
TreeHas(t, k) == t.k = k \/ \E key \in DOMAIN t.f : TreeHas(t.f[key], k)

RECURSIVE CountRefs(_)
\* number of reference nodes in a tree
CountRefs(t) ==
    IF t.k \notin {"m", "a"} THEN 0
    ELSE IF IsRefTree(t) THEN 1
    ELSE LET RECURSIVE Sum(_)
             Sum(S) == IF S = {} THEN 0
                       ELSE LET x == CHOOSE y \in S : TRUE
                            IN  CountRefs(t.f[x]) + Sum(S \ {x})
         IN  Sum(DOMAIN t.f)

DropKeys(t, ks) == [t EXCEPT !.f = Explicit([key \in (DOMAIN t.f) \ ks |-> t.f[key]])]

(***************************************************************************)
(* Specification SpecDeref: dereferenceSwagger2 applied to a Swagger 2.0   *)
(* document with definitions A, B, C and one place that uses them.         *)
(***************************************************************************)
RefTo(p) == TM(<< <<"$ref", TS(p)>> >>)
RefSib(p, d) == TM(<< <<"$ref", TS(p)>>, <<"description", TS(d)>> >>)

DerefBodyA ==
    [ plain  |-> TM(<< <<"type", TS("object")>>,
                       <<"properties", TM(<< <<"id", TM(<< <<"type", TS("integer")>> >>)>> >>)>> >>),
      refB   |-> TM(<< <<"type", TS("object")>>, <<"description", TS("A")>>,
                       <<"properties", TM(<< <<"b", RefTo("#/definitions/B")>> >>)>> >>),
      aliasB |-> RefTo("#/definitions/B"),
      self   |-> RefTo("#/definitions/A"),
      recur  |-> TM(<< <<"type", TS("object")>>,
                       <<"properties", TM(<< <<"next", RefTo("#/definitions/A")>> >>)>> >>),
      arrB   |-> TM(<< <<"type", TS("array")>>, <<"items", RefTo("#/definitions/B")>> >>),
      sibB   |-> TM(<< <<"type", TS("object")>>,
                       <<"properties", TM(<< <<"b", RefSib("#/definitions/B", "mine")>> >>)>> >>) ]

DerefBodyB ==
    [ plain |-> TM(<< <<"type", TS("string")>>, <<"description", TS("B")>> >>),
      refA  |-> TM(<< <<"type", TS("object")>>,
                      <<"properties", TM(<< <<"a", RefTo("#/definitions/A")>> >>)>> >>),
      refC  |-> TM(<< <<"type", TS("object")>>,
                      <<"properties", TM(<< <<"c", RefTo("#/definitions/C~1D")>> >>)>> >>) ]

DerefUse ==
    [ A       |-> RefTo("#/definitions/A"),
      B       |-> RefTo("#/definitions/B"),
      Asib    |-> RefSib("#/definitions/A", "used"),
      missing |-> RefSib("#/definitions/Nope", "gone"),
      extern  |-> RefTo("other.json#/definitions/A"),
      twice   |-> TM(<< <<"type", TS("object")>>,
                        <<"properties", TM(<< <<"x", RefTo("#/definitions/A")>>,
                                              <<"y", RefTo("#/definitions/A")>> >>)>> >>),
      list    |-> TM(<< <<"allOf", TA(<< RefTo("#/definitions/B"), RefTo("#/definitions/A") >>)>> >>),
      none    |-> TM(<< <<"type", TS("string")>> >>) ]

DerefDoc(a, b, u, defsFirst) ==
    LET paths == <<"paths", TM(<< <<"/x", TM(<< <<"get", TM(<< <<"responses",
                     TM(<< <<"200", TM(<< <<"description", TS("ok")>>,
                                          <<"schema", DerefUse[u]>> >>)>> >>)>> >>)>> >>)>> >>)>>
        defs  == <<"definitions", TM(<< <<"A", DerefBodyA[a]>>,
                                        <<"B", DerefBodyB[b]>>,
                                        <<"C/D", TM(<< <<"type", TS("boolean")>> >>)>> >>)>>
    IN  IF defsFirst
        THEN TM(<< <<"swagger", TS("2.0")>>, defs, paths >>)
        ELSE TM(<< <<"swagger", TS("2.0")>>, paths, defs >>)

\* the document of the direct self-reference: {"A": {"$ref": "#/A"}}
SelfRefDoc == TM(<< <<"A", RefTo("#/A")>> >>)

DerefArgs ==
    { [kind |-> "family", a |-> a, b |-> b, u |-> u, defsFirst |-> o] :
          a \in DOMAIN DerefBodyA, b \in DOMAIN DerefBodyB,
          u \in DOMAIN DerefUse, o \in BOOLEAN }
    \cup { [kind |-> "selfref", a |-> "self", b |-> "plain", u |-> "none", defsFirst |-> FALSE] }

DerefDocOf(x) ==
    IF x.kind = "selfref" THEN SelfRefDoc ELSE DerefDoc(x.a, x.b, x.u, x.defsFirst)

InitDeref ==
    \E x \in DerefArgs, drop \in BOOLEAN :
        /\ heap = <<>>
        /\ root = Undef
        /\ pc = "load"
        /\ err = ""
        /\ ret = Undef
        /\ warnings = <<>>
        /\ stats = NoStats
        /\ arg = [doc |-> x, dropDefinitions |-> drop, doc0 |-> Missing]

\* the parsed document is laid out; doc0 keeps its tree for comparison
LoadDeref ==
    /\ pc = "load"
    /\ LET a == Parse(<<>>, DerefDocOf(arg.doc))
       IN  /\ heap' = a.h
           /\ root' = a.v
           /\ arg' = [arg EXCEPT !.doc0 = TreeOf(a.h, a.v, MaxTreeDepth)]
    /\ pc' = "deref"
    /\ UNCHANGED <<err, ret, warnings, stats>>

DerefCall ==
    /\ pc = "deref"
    /\ LET Returned(r) ==
               /\ heap' = r.h
               /\ err' = r.err
               /\ ret' = r.ret
               /\ stats' = [replacedRefs |-> r.replacedRefs, missingRefs |-> r.missingRefs,
                            cycleRefs |-> r.cycleRefs]
       IN  Returned(dereferenceSwagger2(Mach(heap), root, arg.dropDefinitions))
    /\ pc' = "dereffed"
    /\ UNCHANGED <<root, warnings, arg>>

NextDeref == LoadDeref \/ DerefCall

SpecDeref == InitDeref /\ [][NextDeref]_vars

\* the input document expanded by hand, without / with the sibling keys of
\* the reference nodes
HandPlain(doc) == HandExpand(doc, PointersOf(doc), doc, FALSE, MaxRefChain)
HandSib(doc)   == HandExpand(doc, PointersOf(doc), doc, TRUE, MaxRefChain)
\* every reference of the document is local and resolves to an object, and
\* no chain of references comes back to itself
AcyclicLocal(doc) == ~TreeHas(HandPlain(doc), "none") /\ ~TreeHas(HandPlain(doc), "deep")
\* some chain of references comes back to itself
HandCyclic(doc) == TreeHas(HandPlain(doc), "deep")
Dropped(t) == IF arg.dropDefinitions
              THEN DropKeys(t, {"definitions", "parameters", "responses"}) ELSE t

\* C7 as stated: for an acyclic document whose references are all local and
\* resolvable, the dereferenced tree has no `$ref` and holds, at each former
\* `$ref` position, exactly the values of the target resolved by hand.
C7_Original ==
    (pc = "dereffed" /\ AcyclicLocal(arg.doc0)) =>
        /\ err = ""
        /\ CountRefs(TreeOf(heap, root, MaxTreeDepth)) = 0
        /\ TreeOf(heap, root, MaxTreeDepth) = Dropped(HandPlain(arg.doc0))

\* C7 amended: for an acyclic document whose references are all local and
\* resolvable, the dereferenced tree has no `$ref` and holds, at each former
\* `$ref` position, the values of the target resolved by hand with the sibling
\* keys of the `$ref` node laid over them (a sibling wins over the target).
C7_DerefRoundTrip ==
    (pc = "dereffed" /\ AcyclicLocal(arg.doc0)) =>
        /\ err = ""
        /\ CountRefs(TreeOf(heap, root, MaxTreeDepth)) = 0
        /\ TreeOf(heap, root, MaxTreeDepth) = Dropped(HandSib(arg.doc0))

\* an acyclic document with nested references and a reference node with a
\* sibling key was dereferenced
C7_Witness ==
    /\ pc = "dereffed" /\ AcyclicLocal(arg.doc0)
    /\ CountRefs(arg.doc0) >= 3
    /\ HandSib(arg.doc0) # HandPlain(arg.doc0)
    /\ stats.replacedRefs >= 3

\* C8: on a document with a chain of local references that leads back to a
\* pointer still being resolved (the direct self-reference {"A": {"$ref":
\* "#/A"}} included) the Dereferencer returns normally and counts at least
\* one cycle.
C8_CycleSafety ==
    (pc = "dereffed" /\ HandCyclic(arg.doc0)) => err = "" /\ stats.cycleRefs >= 1

\* the direct self-reference document was dereferenced
C8_Witness ==
    /\ pc = "dereffed"
    /\ arg.doc.kind = "selfref"
    /\ stats.cycleRefs >= 1

\* every reference of the document is local and has an object as its target
AllResolvable(doc) == ~TreeHas(HandPlain(doc), "none")

\* the schema of the place that uses the definitions, after the run
UsePath == <<"paths", "/x", "get", "responses", "200", "schema">>

\* the value is the fallback {type: "object"}, with this description if any
IsFallback(h, v, desc) ==
    /\ IsObj(v)
    /\ Keys(h, v.id) = IF desc = "" THEN <<"type">> ELSE <<"description", "type">>
    /\ Get(h, v, "type") = Str("object")
    /\ desc # "" => Get(h, v, "description") = Str(desc)

\* C20 as stated: a pointer met while it is being resolved is counted as a
\* cycle, and the missing counter counts only pointers that are not local or
\* whose target is missing or no object: on a document whose references are
\* all local with an object as target it stays 0.
C20_Original ==
    pc = "dereffed" /\ err = ""
    => /\ HandCyclic(arg.doc0) => stats.cycleRefs >= 1
       /\ AllResolvable(arg.doc0) => stats.missingRefs = 0

\* C20: a pointer met while it is being resolved is counted as a cycle; the
\* missing counter counts every reference node that received the fallback:
\* those whose pointer is not local or whose target is missing or no object,
\* and those counted as a cycle.  The fallback is {type: "object"} with the
\* description of the reference node when it has one.
C20_CycleAlsoMissing ==
    pc = "dereffed" /\ err = ""
    => /\ HandCyclic(arg.doc0) => stats.cycleRefs >= 1
       /\ ~HandCyclic(arg.doc0) => stats.cycleRefs = 0
       /\ IF AllResolvable(arg.doc0) THEN stats.missingRefs = stats.cycleRefs
          ELSE stats.missingRefs > stats.cycleRefs
       /\ arg.doc.kind = "family" /\ arg.doc.u = "missing"
          => IsFallback(heap, NodeAt(heap, ret, UsePath), "gone")
       /\ arg.doc.kind = "family" /\ arg.doc.u = "extern"
          => IsFallback(heap, NodeAt(heap, ret, UsePath), "")
       /\ arg.doc.kind = "selfref" => IsFallback(heap, Get(heap, ret, "A"), "")

\* a document whose references all have an object as target, one of them met
\* while it was being resolved: counted as a cycle and as missing
C20_Witness ==
    /\ pc = "dereffed" /\ err = ""
    /\ arg.doc.kind = "family" /\ arg.doc.a = "recur" /\ arg.doc.u = "A"
    /\ AllResolvable(arg.doc0)
    /\ stats.cycleRefs >= 1
    /\ stats.missingRefs = stats.cycleRefs

\* the places (object, key) of heap h, among the objects R, that hold object i
PlacesOf(h, R, i) ==
    {pk \in UNION {{<<p, k>> : k \in DOMAIN h[p].val} : p \in R} : h[pk[1]].val[pk[2]] = Obj(i)}

\* no object reachable from v is held at two places, and v at none
TreeByIdentity(h, v) ==
    LET R == Reach(h, {v.id}, {})
    IN  /\ PlacesOf(h, R, v.id) = {}
        /\ \A i \in R : Cardinality(PlacesOf(h, R, i)) <= 1

\* C21: in the document the Dereferencer returns no object is held at two
\* places, so no two substituted occurrences share an object; no object of
\* the document is an object of a cache entry; and a sibling key of a `$ref`
\* node wins over the same key of its target.
C21_FreshClones ==
    [][pc = "deref"
       => LET r == dereferenceSwagger2(Mach(heap), root, arg.dropDefinitions)
              out == Reach(r.h, {r.ret.id}, {})
          IN  r.err = ""
              => /\ TreeByIdentity(r.h, r.ret)
                 /\ \A ref \in DOMAIN r.cache :
                        IsObj(r.cache[ref])
                        => Reach(r.h, {r.cache[ref].id}, {}) \cap out = {}
                 /\ arg.doc.kind = "family" /\ arg.doc.u = "Asib"
                    => Get(r.h, NodeAt(r.h, r.ret, UsePath), "description") = Str("used")
      ]_vars

\* the same pointer was substituted at two places: two objects, equal trees
C21_Witness ==
    /\ pc = "dereffed" /\ err = ""
    /\ arg.doc.kind = "family" /\ arg.doc.u = "twice" /\ arg.doc.a = "refB"
    /\ stats.replacedRefs >= 2
    /\ LET x == NodeAt(heap, ret, UsePath \o <<"properties", "x">>)
           y == NodeAt(heap, ret, UsePath \o <<"properties", "y">>)
       IN  /\ IsObj(x) /\ IsObj(y) /\ x # y
           /\ TreeOf(heap, x, MaxTreeDepth) = TreeOf(heap, y, MaxTreeDepth)
           /\ Get(heap, x, "description") = Str("A")

\* the document a run of the Dereferencer returns, as a tree
DerefTree(r) == [err |-> r.err, tree |-> TreeOf(r.h, r.ret, MaxTreeDepth)]

\* the run of the program, the run that resolves every occurrence afresh,
\* and the run of the program on the document with the definitions and the
\* paths in the other order
DerefCached == DerefTree(dereferenceSwagger2(Mach(heap), root, arg.dropDefinitions))

DerefAfresh ==
    DerefTree(dereferenceSwagger2([Mach(heap) EXCEPT !.cached = FALSE], root,
                                  arg.dropDefinitions))

DerefOtherOrder ==
    LET a == Parse(<<>>, DerefDocOf([arg.doc EXCEPT !.defsFirst = ~@]))
    IN  DerefTree(dereferenceSwagger2(Mach(a.h), a.v, arg.dropDefinitions))

Prop(t) == TM(<< <<"type", TS(t)>> >>)

FlattenBase ==
    TM(<< <<"type", TS("object")>>,
          <<"properties", TM(<< <<"id", Prop("integer")>>, <<"base", Prop("string")>> >>)>>,
          <<"required", TA(<<TS("id"), TS("base")>>)>> >>)

\* the keys of S next to its allOf
FlattenOwn ==
    [none  |-> <<>>,
     props |-> << <<"properties", TM(<< <<"id", Prop("string")>>, <<"name", Prop("string")>> >>)>>,
                  <<"required", TA(<<TS("id")>>)>> >>,
     typed |-> << <<"type", TS("object")>>,
                  <<"description", TS("own")>>,
                  <<"properties", TM(<< <<"name", Prop("boolean")>> >>)>>,
                  <<"required", TA(<<TS("name"), TS("name")>>)>> >>]

\* the members an allOf is made of
FlattenMember ==
    [inA        |-> TM(<< <<"properties", TM(<< <<"name", Prop("integer")>> >>)>>,
                          <<"required", TA(<<TS("name"), TS("id")>>)>> >>),
     inB        |-> TM(<< <<"type", TS("object")>>, <<"description", TS("b")>>,
                          <<"properties", TM(<< <<"tag", Prop("string")>> >>)>> >>),
     refBase    |-> RefTo("#/definitions/Base"),
     refT       |-> RefTo("#/definitions/T"),
     refSelf    |-> RefTo("#/definitions/S"),
     refMissing |-> RefTo("#/definitions/Nope"),
     dangling   |-> RefTo("#/definitions/Base/allOf/0"),
     scalar     |-> TS("x")]

\* T flattens to more than its own keys, or leads back to S
FlattenT ==
    [nested |-> TM(<< <<"allOf", TA(<<RefTo("#/definitions/Base"),
                                      TM(<< <<"properties", TM(<< <<"extra", Prop("string")>> >>)>> >>)>>)>>,
                      <<"properties", TM(<< <<"name", Prop("number")>> >>)>> >>),
     cyclic |-> TM(<< <<"allOf", TA(<<RefTo("#/definitions/S")>>)>>,
                      <<"properties", TM(<< <<"t", Prop("string")>> >>)>>,
                      <<"required", TA(<<TS("t")>>)>> >>)]

\* the member lists: up to two members
FlattenLists ==
    {<<>>} \cup { <<a>> : a \in DOMAIN FlattenMember }
           \cup { <<a, b>> : a \in DOMAIN FlattenMember, b \in DOMAIN FlattenMember }

FlattenArgs ==
    { [own |-> o, t |-> t, hasAllOf |-> TRUE, members |-> ms] :
          o \in DOMAIN FlattenOwn, t \in DOMAIN FlattenT, ms \in FlattenLists }
    \cup { [own |-> o, t |-> t, hasAllOf |-> FALSE, members |-> <<>>] :
          o \in DOMAIN FlattenOwn, t \in DOMAIN FlattenT }

FlattenDoc(x) ==
    TM(<< <<"swagger", TS("2.0")>>,
          <<"definitions",
            TM(<< <<"S", TM((IF x.hasAllOf
                             THEN << <<"allOf", TA(<<>> \o [i \in 1..Len(x.members) |->
                                                       FlattenMember[x.members[i]]])>> >>
                             ELSE <<>>) \o FlattenOwn[x.own])>>,
                  <<"T", FlattenT[x.t]>>,
                  <<"Base", FlattenBase>> >>)>> >>)

InitFlatten ==
    \E x \in FlattenArgs :
        /\ heap = <<>>
        /\ root = Undef
        /\ pc = "load"
        /\ err = ""
        /\ ret = Undef
        /\ warnings = <<>>
        /\ stats = NoStats
        /\ arg = [doc |-> x, doc0 |-> Missing]

LoadFlatten ==
    /\ pc = "load"
    /\ LET a == Parse(<<>>, FlattenDoc(arg.doc))
       IN  /\ heap' = a.h
           /\ root' = a.v
           /\ arg' = [arg EXCEPT !.doc0 = TreeOf(a.h, a.v, MaxTreeDepth)]
    /\ pc' = "flatten"
    /\ UNCHANGED <<err, ret, warnings, stats>>

\* flattenAllOf(S, spec, { active: new WeakSet() })
FlattenSchema ==
    /\ pc = "flatten"
    /\ LET Returned(r) ==
               /\ heap' = r.h
               /\ err' = r.err
               /\ ret' = r.ret
       IN  Returned(Run([Mach(heap) EXCEPT !.spec = root],
                        FlattenCall(NodeAt(heap, root, <<"definitions", "S">>))))
    /\ pc' = "flattened"
    /\ UNCHANGED <<root, warnings, stats, arg>>

NextFlatten == LoadFlatten \/ FlattenSchema

SpecFlatten == InitFlatten /\ [][NextFlatten]_vars

\* the schema under test
SchemaS(h) == NodeAt(h, root, <<"definitions", "S">>)

\* the object a member stands for, found by hand: the member itself, or for a
\* reference the object at the key path whose pointer text it is (or, when
\* there is none, whose pointer text it is once one `/allOf/<n>` segment pair
\* is cut out of it); null when there is no such object
HandMember(h, ptr, item) ==
    IF ~IsObj(item) THEN Null
    ELSE IF ~HasKey(h, item.id, "$ref") THEN item
    ELSE LET r == h[item.id].val["$ref"].s
             cut == {SubSeq(r, 1, i - 1) \o SubSeq(r, i + 8, Len(r)) :
                        i \in {j \in 1..(Len(r) - 7) :
                                  /\ SubSeq(r, j, j + 6) = "/allOf/"
                                  /\ SubSeq(r, j + 7, j + 7) \in Digits
                                  /\ (j + 7 = Len(r) \/ SubSeq(r, j + 8, j + 8) = "/")}}
             direct == {p \in DOMAIN ptr : ptr[p] = r}
             cands == IF direct # {} THEN direct ELSE {p \in DOMAIN ptr : ptr[p] \in cut}
             target == IF cands = {} THEN Null ELSE NodeAt(h, root, CHOOSE p \in cands : TRUE)
         IN  IF IsObj(target) THEN target ELSE Null

\* S followed by the objects its members stand for
HandSources(h) ==
    LET S == SchemaS(h)
        allOf == Get(h, S, "allOf")
        ptr == PointersOf(arg.doc0)
    IN  <<S>> \o [i \in 1..Len(Keys(h, allOf.id)) |-> HandMember(h, ptr, Elems(h, allOf)[i])]

\* S has a non-empty allOf
HasMembers(h) ==
    IsArr(h, Get(h, SchemaS(h), "allOf")) /\ Len(Keys(h, Get(h, SchemaS(h), "allOf").id)) > 0

\* ... and every member stands for an object
Flattenable(h) ==
    HasMembers(h) /\ LET srcs == HandSources(h)
                     IN  \A i \in 2..Len(srcs) : IsObj(srcs[i])

\* the properties map / the required list of a schema
PropsOf(h, x) ==
    IF IsObj(Get(h, x, "properties")) THEN h[Get(h, x, "properties").id].val ELSE EmptyVal
RequiredOf(h, x) ==
    IF IsArr(h, Get(h, x, "required")) THEN Elems(h, Get(h, x, "required")) ELSE <<>>

\* flattening turned S (in heap h) into the union of its sources (in heap
\* h2): a member is taken as flattening leaves it (its own allOf is
\* flattened first), S itself as it was
FlattenedRight(h, h2, r) ==
    LET S == SchemaS(h)
        srcs == HandSources(h)
        at(j) == IF srcs[j] = S THEN h ELSE h2
        P(j) == PropsOf(at(j), srcs[j])
        R(j) == RequiredOf(at(j), srcs[j])
        names == UNION {DOMAIN P(j) : j \in 1..Len(srcs)}
        last(n) == CHOOSE j \in 1..Len(srcs) :
                       /\ n \in DOMAIN P(j)
                       /\ \A k \in (j + 1)..Len(srcs) : n \notin DOMAIN P(k)
        req == UNION {{R(j)[i] : i \in 1..Len(R(j))} : j \in 1..Len(srcs)}
        got == RequiredOf(h2, S)
    IN  /\ r = Bool(TRUE)
        /\ ~HasKey(h2, S.id, "allOf")
        /\ DOMAIN PropsOf(h2, S) = names
        /\ \A n \in names : PropsOf(h2, S)[n] = P(last(n))[n]
        /\ {got[i] : i \in 1..Len(got)} = req
        /\ Len(got) = Cardinality(req)

C6_FlattenTerminates ==
    [][ pc = "flatten" =>
        /\ err' = ""
        /\ ~HasMembers(heap) => heap' = heap /\ ret' = Bool(FALSE)
        /\ LET r == Run([Mach(heap) EXCEPT !.spec = root, !.active = {SchemaS(heap).id}],
                        FlattenCall(SchemaS(heap)))
           IN  r.err = "" /\ r.ret = Bool(FALSE) /\ r.h = heap
      ]_vars

\* a schema that is a member of itself was flattened
C6_Witness ==
    /\ pc = "flattened" /\ err = "" /\ ret = Bool(TRUE)
    /\ arg.doc.members = <<"refSelf", "refT">> /\ arg.doc.t = "cyclic"

\* the first member of S that stands for no object
FirstFailing(h) ==
    LET srcs == HandSources(h)
    IN  CHOOSE i \in 1..(Len(srcs) - 1) :
            /\ ~IsObj(srcs[i + 1])
            /\ \A j \in 1..(i - 1) : IsObj(srcs[j + 1])

\* the pointer a reference member is found under, by hand, when it is not
\* the one it is written with: the pointer text with one `/allOf/<n>` pair
\* cut out, for a member whose own text is no pointer of the document
HandRewrite(h, ptr, item) ==
    IF ~IsObj(item) \/ ~HasKey(h, item.id, "$ref") THEN {}
    ELSE LET r == h[item.id].val["$ref"].s
             cut == {SubSeq(r, 1, i - 1) \o SubSeq(r, i + 8, Len(r)) :
                        i \in {j \in 1..(Len(r) - 7) :
                                  /\ SubSeq(r, j, j + 6) = "/allOf/"
                                  /\ SubSeq(r, j + 7, j + 7) \in Digits
                                  /\ (j + 7 = Len(r) \/ SubSeq(r, j + 8, j + 8) = "/")}}
         IN  IF \E p \in DOMAIN ptr : ptr[p] = r THEN {}
             ELSE {c \in cut : \E p \in DOMAIN ptr : ptr[p] = c /\ IsObj(NodeAt(h, root, p))}

\* the heap a failed flattening of S leaves: each reference member before
\* the failing one that was found under a cut pointer carries that pointer
FailedHeap(h) ==
    LET allOf == Get(h, SchemaS(h), "allOf")
        ptr == PointersOf(arg.doc0)
        early == {Elems(h, allOf)[k] : k \in 1..(FirstFailing(h) - 1)}
    IN  [i \in 1..Len(h) |->
            IF Obj(i) \in early /\ HandRewrite(h, ptr, Obj(i)) # {}
            THEN [h[i] EXCEPT !.val["$ref"] = Str(CHOOSE c \in HandRewrite(h, ptr, Obj(i)) : TRUE)]
            ELSE h[i]]

\* C25 as stated: when a member of S is a reference that resolves to no
\* object, also with its `/allOf/<n>` segments cut out, or is neither an
\* object nor a reference, flattenAllOf returns false without raising, S
\* keeps its allOf with the same members and all its other keys, and S is
\* not in the active set.
C25_Original ==
    [][ (pc = "flatten" /\ HasMembers(heap) /\ ~Flattenable(heap)) =>
            LET r == Run([Mach(heap) EXCEPT !.spec = root], FlattenCall(SchemaS(heap)))
            IN  /\ r.err = "" /\ r.ret = Bool(FALSE)
                /\ TreeOf(r.h, SchemaS(heap), MaxTreeDepth)
                       = TreeOf(heap, SchemaS(heap), MaxTreeDepth)
                /\ SchemaS(heap).id \notin r.active
      ]_vars

\* C25: in that case flattenAllOf returns false without raising, S keeps its
\* keys and their values, its allOf holds the same member objects in the
\* same order, S is not in the active set, and nothing in the document has
\* changed but the `$ref` text of the reference members before the failing
\* one that were resolved with their `/allOf/<n>` segments cut out: they
\* carry the cut pointer.
C25_FailureKeepsSchema ==
    [][ (pc = "flatten" /\ HasMembers(heap) /\ ~Flattenable(heap)) =>
            LET r == Run([Mach(heap) EXCEPT !.spec = root], FlattenCall(SchemaS(heap)))
                S == SchemaS(heap)
            IN  /\ r.err = "" /\ r.ret = Bool(FALSE)
                /\ err' = "" /\ ret' = Bool(FALSE) /\ heap' = r.h
                /\ r.h[S.id] = heap[S.id]
                /\ r.h[Get(heap, S, "allOf").id] = heap[Get(heap, S, "allOf").id]
                /\ r.h = FailedHeap(heap)
                /\ r.active = {}
      ]_vars

\* S = {allOf: [{$ref: #/definitions/Base/allOf/0}, {$ref: #/definitions/Nope}],
\* ...}: the call returned false, S has its allOf and its own keys, and the
\* first member now reads #/definitions/Base
C25_Witness ==
    /\ pc = "flattened" /\ err = "" /\ ret = Bool(FALSE)
    /\ arg.doc.members = <<"dangling", "refMissing">> /\ arg.doc.own = "props"
    /\ Keys(heap, SchemaS(heap).id) = <<"allOf", "properties", "required">>
    /\ LET members == Elems(heap, Get(heap, SchemaS(heap), "allOf"))
       IN  /\ Get(heap, members[1], "$ref") = Str("#/definitions/Base")
           /\ Get(heap, members[2], "$ref") = Str("#/definitions/Nope")

(***************************************************************************)
(* Specification SpecConvert: convertOpenapi3ToSwagger2 applied to a       *)
(* document, and then once more to the document it returned.               *)
(***************************************************************************)
ArrayOfStrings == TM(<< <<"type", TS("array")>>, <<"items", TM(<< <<"type", TS("string")>> >>)>> >>)

\* the parameters of the operation, by name of the case
ConvertParams ==
    [none     |-> <<>>,
     csv      |-> <<TM(<< <<"name", TS("ids")>>, <<"in", TS("query")>>, <<"explode", TB(FALSE)>>,
                          <<"schema", ArrayOfStrings>> >>)>>,
     ssv      |-> <<TM(<< <<"name", TS("ids")>>, <<"in", TS("query")>>,
                          <<"style", TS("spaceDelimited")>>, <<"schema", ArrayOfStrings>> >>)>>,
     label    |-> <<TM(<< <<"name", TS("ids")>>, <<"in", TS("path")>>, <<"required", TB(TRUE)>>,
                          <<"style", TS("label")>>, <<"schema", ArrayOfStrings>> >>)>>,
     multi    |-> <<TM(<< <<"name", TS("ids")>>, <<"in", TS("query")>>,
                          <<"schema", ArrayOfStrings>> >>)>>,
     simple   |-> <<TM(<< <<"name", TS("X-Ids")>>, <<"in", TS("header")>>,
                          <<"schema", ArrayOfStrings>> >>)>>,
     scalar   |-> <<TM(<< <<"name", TS("limit")>>, <<"in", TS("query")>>, <<"example", TN("5")>>,
                          <<"schema", TM(<< <<"type", TS("integer")>>, <<"format", TS("int32")>>,
                                            <<"description", TS("page size")>>,
                                            <<"x-unit", TS("items")>> >>)>> >>)>>,
     shared   |-> <<TM(<< <<"$ref", TS("#/components/parameters/Limit")>> >>)>>,
     sharedSsv |-> <<TM(<< <<"$ref", TS("#/components/parameters/Ids")>> >>)>>,
     deep     |-> <<TM(<< <<"name", TS("ids")>>, <<"in", TS("query")>>,
                          <<"style", TS("deepObject")>>, <<"schema", ArrayOfStrings>> >>)>>,
     matrix   |-> <<TM(<< <<"name", TS("ids")>>, <<"in", TS("path")>>, <<"required", TB(TRUE)>>,
                          <<"style", TS("matrix")>>, <<"explode", TB(TRUE)>>,
                          <<"schema", ArrayOfStrings>> >>)>>,
     pipes    |-> <<TM(<< <<"name", TS("ids")>>, <<"in", TS("query")>>,
                          <<"style", TS("pipeDelimited")>>, <<"explode", TB(FALSE)>>,
                          <<"schema", ArrayOfStrings>> >>)>>,
     dangling |-> <<TM(<< <<"$ref", TS("#/components/parameters/Missing")>> >>)>>,
     null     |-> <<[k |-> "s", v |-> Null, kv |-> <<>>]>>]

\* the request body of the operation, by name of the case
ConvertBodies ==
    [none     |-> <<>>,
     json     |-> << <<"application/json",
                       TM(<< <<"schema", TM(<< <<"$ref", TS("#/components/schemas/Pet")>> >>)>> >>)>> >>,
     form     |-> << <<"application/x-www-form-urlencoded",
                       TM(<< <<"schema", TM(<<
                           <<"type", TS("object")>>,
                           <<"required", TA(<<TS("name")>>)>>,
                           <<"properties", TM(<<
                               <<"name", TM(<< <<"type", TS("string")>>, <<"nullable", TB(TRUE)>> >>)>>,
                               <<"age", TM(<< <<"type", TS("integer")>>,
                                              <<"readOnly", TB(TRUE)>> >>)>> >>)>> >>)>> >>)>> >>,
     formBare |-> << <<"multipart/form-data", TM(<<>>)>> >>,
     external |-> << <<"application/json",
                       TM(<< <<"schema", TM(<< <<"$ref", TS("other.yaml#/Pet")>> >>)>> >>)>> >>,
     octet    |-> << <<"application/octet-stream", TM(<<>>)>> >>,
     wild     |-> << <<"image/*", TM(<<>>)>> >>,
     vendor   |-> << <<"text/*", TM(<<>>)>>,
                     <<"application/vnd.api+json",
                       TM(<< <<"schema", TM(<< <<"type", TS("object")>>,
                                               <<"properties", TM(<<
                                                   <<"id", TM(<< <<"type", TS("integer")>> >>)>> >>)>> >>)>> >>)>> >>,
     jsonForm |-> << <<"application/json",
                       TM(<< <<"schema", TM(<< <<"$ref", TS("#/components/schemas/Pet")>> >>)>> >>)>>,
                     <<"multipart/form-data",
                       TM(<< <<"schema", TM(<< <<"type", TS("string")>> >>)>> >>)>> >>,
     formJson |-> << <<"multipart/form-data",
                       TM(<< <<"schema", TM(<< <<"type", TS("string")>> >>)>> >>)>>,
                     <<"application/json",
                       TM(<< <<"schema", TM(<< <<"$ref", TS("#/components/schemas/Pet")>> >>)>> >>)>> >>]

\* a security scheme, by name of the case
ConvertSecurity ==
    [basic      |-> TM(<< <<"type", TS("http")>>, <<"scheme", TS("basic")>> >>),
     bearer     |-> TM(<< <<"type", TS("http")>>, <<"scheme", TS("bearer")>>,
                          <<"bearerFormat", TS("JWT")>> >>),
     oauth2     |-> TM(<< <<"type", TS("oauth2")>>,
                          <<"flows", TM(<< <<"authorizationCode", TM(<<
                              <<"authorizationUrl", TS("https://example.com/auth")>>,
                              <<"tokenUrl", TS("https://example.com/token")>>,
                              <<"scopes", TM(<< <<"read", TS("read pets")>> >>)>> >>)>> >>)>> >>),
     oauth2Bare |-> TM(<< <<"type", TS("oauth2")>> >>),
     client     |-> TM(<< <<"type", TS("oauth2")>>,
                          <<"flows", TM(<<
                              <<"clientCredentials", TM(<<
                                  <<"tokenUrl", TS("https://example.com/token")>>,
                                  <<"scopes", TM(<<>>)>> >>)>>,
                              <<"implicit", TM(<<
                                  <<"authorizationUrl", TS("https://example.com/auth")>>,
                                  <<"scopes", TM(<< <<"read", TS("read pets")>> >>)>> >>)>> >>)>> >>),
     implicit   |-> TM(<< <<"type", TS("oauth2")>>, <<"description", TS("login")>>,
                          <<"flows", TM(<< <<"implicit", TM(<<
                              <<"authorizationUrl", TS("https://example.com/auth")>>,
                              <<"scopes", TM(<< <<"read", TS("read pets")>> >>)>> >>)>> >>)>> >>),
     apiKey     |-> TM(<< <<"type", TS("apiKey")>>, <<"name", TS("X-Key")>>,
                          <<"in", TS("header")>> >>),
     digest     |-> TM(<< <<"type", TS("http")>>, <<"scheme", TS("digest")>> >>)]

\* components.securitySchemes of a document: one scheme, or several
ConvertSchemes(sec) ==
    IF sec = "mixed"
    THEN << <<"key", ConvertSecurity["apiKey"]>>, <<"login", ConvertSecurity["basic"]>>,
            <<"token", ConvertSecurity["bearer"]>>, <<"code", ConvertSecurity["oauth2"]>> >>
    ELSE << <<"auth", ConvertSecurity[sec]>> >>

ConvertArgs ==
    ([param : DOMAIN ConvertParams, body : DOMAIN ConvertBodies, sec : {"basic"},
      strict : BOOLEAN]
     \cup [param : {"none"}, body : {"none"},
           sec : (DOMAIN ConvertSecurity \ {"basic"}) \cup {"mixed", "nullRoot"},
           strict : BOOLEAN])

\* the document of a case; the case "nullRoot" is the document null
ConvertDoc(x) ==
    IF x.sec = "nullRoot" THEN [k |-> "s", v |-> Null, kv |-> <<>>]
    ELSE TM(<<
        <<"openapi", TS("3.0.3")>>,
        <<"info", TM(<< <<"title", TS("Pets")>>, <<"version", TS("1.0.0")>> >>)>>,
        <<"servers", TA(<<TM(<<
            <<"url", TS("https://{env}.example.com/v1")>>,
            <<"variables", TM(<< <<"env", TM(<< <<"default", TS("api")>> >>)>> >>)>> >>)>>)>>,
        <<"paths", TM(<< <<"/pets", TM(
            (IF x.param = "sharedSsv"
             THEN << <<"parameters", TA(ConvertParams[x.param])>> >> ELSE <<>>)
            \o << <<"post", TM(
            (IF x.param = "none" THEN <<>>
             ELSE << <<"parameters", TA(ConvertParams[x.param])>> >>)
            \o (IF x.body = "none" THEN <<>>
                ELSE << <<"requestBody", TM(<< <<"content", TM(ConvertBodies[x.body])>> >>)>> >>)
            \o << <<"responses", TM(<< <<"200", TM(<<
                    <<"description", TS("ok")>>,
                    <<"headers", TM(<< <<"X-Rate", TM(<<
                        <<"schema", TM(<< <<"type", TS("integer")>> >>)>> >>)>> >>)>>,
                    <<"content", TM(<< <<"application/json", TM(<<
                        <<"schema", TM(<< <<"$ref", TS("#/components/schemas/Pet")>> >>)>>,
                        <<"example", TM(<< <<"id", TN("1")>> >>)>> >>)>> >>)>> >>)>> >>)>> >>)>> >>)>> >>)>>,
        <<"components", TM(<<
            <<"schemas", TM(<<
                <<"Pet", TM(<<
                    <<"type", TS("object")>>,
                    <<"discriminator", TM(<< <<"propertyName", TS("kind")>>,
                                             <<"mapping", TM(<< <<"dog", TS("Dog")>> >>)>> >>)>>,
                    <<"properties", TM(<<
                        <<"id", TM(<< <<"type", TS("integer")>> >>)>>,
                        <<"kind", TM(<< <<"type", TS("string")>> >>)>>,
                        <<"secret", TM(<< <<"type", TS("string")>>, <<"writeOnly", TB(TRUE)>> >>)>>,
                        <<"tag", TM(<< <<"oneOf", TA(<<TM(<< <<"type", TS("string")>> >>),
                                                        TM(<< <<"type", TS("number")>> >>)>>)>> >>)>>,
                        <<"owner", TM(<< <<"type", TS("string")>>, <<"nullable", TB(TRUE)>>,
                                         <<"deprecated", TB(TRUE)>> >>)>> >>)>> >>)>>,
                <<"Dog", TM(<< <<"allOf", TA(<<TM(<< <<"$ref", TS("#/components/schemas/Pet")>> >>),
                                               TM(<< <<"type", TS("object")>>,
                                                     <<"properties", TM(<<
                                                         <<"bark", TM(<< <<"type", TS("boolean")>> >>)>> >>)>> >>)>>)>> >>)>> >>)>>,
            <<"parameters", TM(<<
                <<"Limit", TM(<< <<"name", TS("limit")>>, <<"in", TS("query")>>,
                                 <<"schema", TM(<< <<"type", TS("integer")>> >>)>> >>)>>,
                <<"Ids", TM(<< <<"name", TS("ids")>>, <<"in", TS("query")>>,
                               <<"style", TS("spaceDelimited")>>,
                               <<"schema", ArrayOfStrings>> >>)>> >>)>>,
            <<"securitySchemes", TM(ConvertSchemes(x.sec))>> >>)>> >>)

InitConvert ==
    \E x \in ConvertArgs :
        /\ heap = <<>>
        /\ root = Undef
        /\ pc = "load"
        /\ err = ""
        /\ ret = Undef
        /\ warnings = <<>>
        /\ stats = NoStats
        /\ arg = x

LoadConvert ==
    /\ pc = "load"
    /\ LET a == Parse(<<>>, ConvertDoc(arg))
       IN  /\ heap' = a.h
           /\ root' = a.v
    /\ pc' = "loaded"
    /\ UNCHANGED <<err, ret, warnings, stats, arg>>

\* convertOpenapi3ToSwagger2(spec, { strict })
Convert ==
    /\ pc = "loaded"
    /\ LET Returned(r) ==
               /\ heap' = r.h
               /\ err' = r.err
               /\ ret' = r.ret
       IN  Returned(convertOpenapi3ToSwagger2(Mach(heap), root, arg.strict))
    /\ pc' = "converted"
    /\ UNCHANGED <<root, warnings, stats, arg>>

\* convertOpenapi3ToSwagger2 applied to the document the first run returned
ConvertAgain ==
    /\ pc = "converted"
    /\ err = ""
    /\ LET Returned(r) ==
               /\ heap' = r.h
               /\ err' = r.err
               /\ ret' = r.ret
       IN  Returned(convertOpenapi3ToSwagger2(Mach(heap), ret, arg.strict))
    /\ pc' = "again"
    /\ UNCHANGED <<root, warnings, stats, arg>>

NextConvert == LoadConvert \/ Convert \/ ConvertAgain

SpecConvert == InitConvert /\ [][NextConvert]_vars

RECURSIVE Rendered(_)
\* the tree as JSON text shows it: keys whose value is undefined are left out
Rendered(t) ==
    IF t.k \notin {"m", "a"} THEN t
    ELSE LET ks == {key \in DOMAIN t.f : t.f[key] # [k |-> "s", v |-> Undef, f |-> EmptyVal]}
         IN  [t EXCEPT !.f = Explicit([key \in ks |-> Rendered(t.f[key])])]

\* C3: convertOpenapi3ToSwagger2 raises only for a non-local $ref or for a
\* document root that is no object; every other object-rooted document is
\* converted without an exception.
C3_RaisesOnlyTwoCases ==
    pc = "converted" /\ err # "" => err = "ExternalRefError" \/ ~IsObj(root)

\* C4: a second run of the converter on the document the first run returned
\* raises nothing and leaves every key and value of the document as it was.
C4_Idempotent ==
    [][pc = "converted" /\ pc' = "again"
          => /\ err' = ""
             /\ Rendered(TreeOf(heap', ret', MaxTreeDepth)) = Rendered(TreeOf(heap, ret, MaxTreeDepth))]_vars

\* the first parameter of the operation, and the document as it was loaded
ParamPath == <<"paths", "/pets", "post", "parameters", "0">>
Loaded(x) == Parse(<<>>, ConvertDoc(x))

\* the style table of the specification
StyleFormat(style, explode) ==
    CASE style = "matrix" -> IF Truthy(explode) THEN Undef ELSE Str("csv")
      [] style = "label" -> Undef
      [] style = "simple" -> Str("csv")
      [] style = "spaceDelimited" -> Str("ssv")
      [] style = "pipeDelimited" -> Str("pipes")
      [] OTHER -> IF explode = Bool(FALSE) THEN Str("csv") ELSE Str("multi")

\* C13: an array-typed parameter (here: one written in place) gets its
\* collectionFormat from style and explode by the table, an unrecognized
\* style and an absent style on a query or cookie parameter counting as form;
\* style and explode are gone from every parameter afterwards.
C13_CollectionFormat ==
    pc = "converted" /\ err = "" /\ arg.param \notin {"none", "shared", "sharedSsv"}
    => LET a == Loaded(arg)
           p0 == NodeAt(a.h, a.v, ParamPath)
           style == Get(a.h, p0, "style")
           p == NodeAt(heap, ret, ParamPath)
       IN  /\ IsObj(p)
           /\ ~HasKey(heap, p.id, "style")
           /\ ~HasKey(heap, p.id, "explode")
           /\ /\ Get(heap, p, "type") = Str("array")
              /\ Truthy(style) \/ Get(a.h, p0, "in") \in {Str("query"), Str("cookie")}
              => Get(heap, p, "collectionFormat")
                     = StyleFormat(IF Truthy(style) THEN style.s ELSE "form",
                                   Get(a.h, p0, "explode"))

\* the operation of the document, and its parameters with a given `in`
OperationPath == <<"paths", "/pets", "post">>

ParamsIn(h, op, where) ==
    SelectSeq(IF IsArr(h, Get(h, op, "parameters")) THEN Elems(h, Get(h, op, "parameters")) ELSE <<>>,
              LAMBDA p : IsObj(p) /\ Get(h, p, "in") = Str(where))

\* the request body was converted as form data
AsForm(h, op) == ParamsIn(h, op, "body") = <<>> /\ ParamsIn(h, op, "formData") # <<>>

\* the request body was converted as one body parameter, with this schema
AsBody(h, op, schema) ==
    /\ ParamsIn(h, op, "formData") = <<>>
    /\ Len(ParamsIn(h, op, "body")) = 1
    /\ Get(h, ParamsIn(h, op, "body")[1], "schema") = schema

\* C14 as stated: a form media type in the content map is the representative
\* whatever the order of the keys; without one, the first JSON-compatible
\* media type is.
C14_Original ==
    pc = "converted" /\ err = "" /\ arg.body # "none"
    => LET a == Loaded(arg)
           content == NodeAt(a.h, a.v, OperationPath \o <<"requestBody", "content">>)
           keys == Keys(a.h, content.id)
           op == NodeAt(heap, ret, OperationPath)
       IN  /\ FormTypes(keys) # <<>> => AsForm(heap, op)
           /\ FormTypes(keys) = <<>> /\ JsonTypes(keys) # <<>>
              => AsBody(heap, op, Get(a.h, Get(a.h, content, JsonTypes(keys)[1]), "schema"))

\* C14: the representative media type of a request body is the first key of
\* the content map, in its order, that is a form media type or a
\* JSON-compatible one: the body is converted as form data when that key is a
\* form media type, and as a body parameter with that key's schema otherwise.
C14_FirstSupported ==
    pc = "converted" /\ err = "" /\ arg.body # "none"
    => LET a == Loaded(arg)
           content == NodeAt(a.h, a.v, OperationPath \o <<"requestBody", "content">>)
           supported == SelectSeq(Keys(a.h, content.id),
                                  LAMBDA k : SeqHas(SUPPORTED_MIME_TYPES, k) \/ isJsonMimeType(k))
           op == NodeAt(heap, ret, OperationPath)
       IN  supported # <<>>
           => IF SeqHas(SUPPORTED_MIME_TYPES, supported[1])
              THEN AsForm(heap, op)
              ELSE AsBody(heap, op, Get(a.h, Get(a.h, content, supported[1]), "schema"))

\* JSON listed before multipart/form-data: the body parameter carries the
\* JSON schema
C14_Witness ==
    /\ pc = "converted" /\ err = ""
    /\ arg.body = "jsonForm"
    /\ LET body == ParamsIn(heap, NodeAt(heap, ret, OperationPath), "body")
       IN  /\ Len(body) = 1
           /\ Get(heap, Get(heap, body[1], "schema"), "$ref") = Str("#/definitions/Pet")

\* the content map of the request body as it was loaded, and its media types
\* without a wildcard
ContentPath == OperationPath \o <<"requestBody", "content">>

ConcreteTypes(keys) ==
    SelectSeq(keys, LAMBDA k : IndexOf(k, "/") > 1 /\ IndexOf(k, "*") = 0)

\* operation.consumes as a sequence of strings
ConsumesOf(h, op) ==
    IF IsArr(h, Get(h, op, "consumes"))
    THEN [i \in 1..Len(Elems(h, Get(h, op, "consumes"))) |-> Elems(h, Get(h, op, "consumes"))[i].s]
    ELSE <<"no array">>

C16_BinaryUpload ==
    pc = "converted" /\ err = "" /\ arg.body # "none"
    => LET a == Loaded(arg)
           content == NodeAt(a.h, a.v, ContentPath)
           keys == Keys(a.h, content.id)
           ranges == SelectSeq(keys, LAMBDA k : IndexOf(k, "/") > 1)
           schema0 == Get(a.h, Get(a.h, content, ranges[1]), "schema")
           op == NodeAt(heap, ret, OperationPath)
           body == ParamsIn(heap, op, "body")
       IN  ranges # <<>> /\ FormTypes(keys) = <<>> /\ JsonTypes(keys) = <<>>
           => /\ Len(body) = 1
              /\ Get(heap, body[1], "name") = Str("file")
              /\ ConsumesOf(heap, op) = IF ConcreteTypes(keys) # <<>> THEN ConcreteTypes(keys)
                                        ELSE <<"application/octet-stream">>
              /\ IF Truthy(schema0) THEN Get(heap, body[1], "schema") = schema0
                 ELSE /\ Get(heap, Get(heap, body[1], "schema"), "type") = Str("string")
                      /\ Get(heap, Get(heap, body[1], "schema"), "format") = Str("binary")

\* the keys of an object whose value is not undefined
Defined(h, v) == {k \in DOMAIN h[v.id].val : h[v.id].val[k] # Undef}

\* the flow name of Swagger 2.0 for a flow name of OpenAPI 3
FlowName(name) ==
    CASE name = "clientCredentials" -> "application"
      [] name = "authorizationCode" -> "accessCode"
      [] OTHER -> name

\* the scheme s of heap h is the downgrade of the scheme s0 of heap h0
Downgraded(h0, s0, h, s) ==
    LET type == Get(h0, s0, "type")
        scheme == Get(h0, s0, "scheme")
        flows == Get(h0, s0, "flows")
        flowName == Keys(h0, flows.id)[1]
        flow == Get(h0, flows, flowName)
        \* the keys the downgrade writes or removes
        touched == IF type = Str("http") /\ scheme = Str("basic") THEN {"type", "scheme"}
                   ELSE IF type = Str("http") /\ scheme = Str("bearer")
                   THEN {"type", "name", "in", "scheme", "bearerFormat"}
                   ELSE IF type = Str("oauth2")
                   THEN {"flow", "authorizationUrl", "tokenUrl", "scopes", "flows"}
                   ELSE {}
        Same(v0, v) == TreeOf(h, v, MaxTreeDepth) = TreeOf(h0, v0, MaxTreeDepth)
    IN  /\ IsObj(s)
        /\ Defined(h, s) \ touched = Defined(h0, s0) \ touched
        /\ \A k \in Defined(h0, s0) \ touched : Same(Get(h0, s0, k), Get(h, s, k))
        /\ IF type = Str("http") /\ scheme = Str("basic")
           THEN Get(h, s, "type") = Str("basic") /\ Get(h, s, "scheme") = Undef
           ELSE IF type = Str("http") /\ scheme = Str("bearer")
           THEN /\ Get(h, s, "type") = Str("apiKey")
                /\ Get(h, s, "name") = Str("Authorization")
                /\ Get(h, s, "in") = Str("header")
                /\ Get(h, s, "scheme") = Undef /\ Get(h, s, "bearerFormat") = Undef
           ELSE IF type = Str("oauth2")
           THEN /\ Get(h, s, "flow") = Str(FlowName(flowName))
                /\ \A k \in {"authorizationUrl", "tokenUrl", "scopes"} :
                       Same(Get(h0, flow, k), Get(h, s, k))
                /\ Get(h, s, "flows") = Undef
           ELSE TRUE

\* C17: every entry of components.securitySchemes is found under the top-level
\* securityDefinitions, under its name and in the same order, downgraded as
\* the table says (http basic, http bearer, the first flow of oauth2, any
\* other scheme unchanged), and components has no securitySchemes any more.
C17_SecurityDowngrade ==
    pc = "converted" /\ err = "" /\ arg.sec # "nullRoot"
    => LET a == Loaded(arg)
           schemes == NodeAt(a.h, a.v, <<"components", "securitySchemes">>)
           defs == Get(heap, ret, "securityDefinitions")
       IN  /\ IsObj(defs)
           /\ Get(heap, Get(heap, ret, "components"), "securitySchemes") = Undef
           /\ Keys(heap, defs.id) = Keys(a.h, schemes.id)
           /\ \A k \in DOMAIN a.h[schemes.id].val :
                  Downgraded(a.h, Get(a.h, schemes, k), heap, Get(heap, defs, k))

\* an oauth2 scheme that declares clientCredentials before implicit
C17_Witness ==
    /\ pc = "converted" /\ err = "" /\ arg.sec = "client"
    /\ LET s == NodeAt(heap, ret, <<"securityDefinitions", "auth">>)
       IN  /\ Get(heap, s, "flow") = Str("application")
           /\ Get(heap, s, "tokenUrl") = Str("https://example.com/token")
           /\ ~HasKey(heap, s.id, "flows")

\* the component parameter a case refers to
SharedPath(x) ==
    <<"components", "parameters", IF x.param = "sharedSsv" THEN "Ids" ELSE "Limit">>

\* C19: a parameter given as a $ref is converted on a clone: the component
\* parameter is as it was loaded, the converted parameter is another object,
\* and it has the type of the component's schema and the collectionFormat of
\* the component's style, also when the path item refers to the same
\* component.
C19_SharedParameter ==
    pc = "converted" /\ err = "" /\ arg.param \in {"shared", "sharedSsv"}
    => LET a == Loaded(arg)
           c0 == NodeAt(a.h, a.v, SharedPath(arg))
           p == NodeAt(heap, ret, ParamPath)
           style == Get(a.h, c0, "style")
       IN  /\ TreeOf(heap, c0, MaxTreeDepth) = TreeOf(a.h, c0, MaxTreeDepth)
           /\ IsObj(p) /\ p # c0
           /\ Get(heap, p, "name") = Get(a.h, c0, "name")
           /\ Get(heap, p, "type") = Get(a.h, Get(a.h, c0, "schema"), "type")
           /\ Get(heap, p, "type") = Str("array")
              => Get(heap, p, "collectionFormat")
                     = StyleFormat(IF Truthy(style) THEN style.s ELSE "form",
                                   Get(a.h, c0, "explode"))
           /\ arg.param = "sharedSsv"
              => TreeOf(heap, NodeAt(heap, ret, <<"paths", "/pets", "parameters", "0">>), MaxTreeDepth)
                     = TreeOf(heap, p, MaxTreeDepth)

(***************************************************************************)
(* Specification SpecPipeline: the stages the fetch handler runs on a      *)
(* parsed document, in its order, under the options strict, deref and      *)
(* diagnostics.                                                            *)
(***************************************************************************)
\* the schemas of a case; p is the pointer prefix of a schema, v31 tells
\* whether the document may use the 3.1 vocabulary
PipelineSchemas(case, p, v31) ==
    LET ref(n) == TM(<< <<"$ref", TS(p \o n)>> >>)
        base == <<"Base", TM(<< <<"type", TS("object")>>,
                                <<"required", TA(<<TS("id")>>)>>,
                                <<"properties", TM(<< <<"id", TM(<< <<"type", TS("integer")>> >>)>> >>)>> >>)>>
        pet == <<"Pet", TM(<<
                   <<"type", TS("object")>>,
                   <<"properties", TM(<<
                       <<"name", TM(IF v31
                                    THEN << <<"type", TA(<<TS("string"), TS("null")>>)>>,
                                            <<"examples", TA(<<TS("Rex")>>)>> >>
                                    ELSE << <<"type", TS("string")>> >>)>>,
                       <<"tag", TM(<< <<"oneOf", TA(<<TM(<< <<"type", TS("string")>> >>),
                                                       TM(<< <<"type", TS("number")>> >>)>>)>> >>)>>,
                       <<"kind", TM(IF v31 THEN << <<"const", TS("pet")>> >>
                                    ELSE << <<"type", TS("string")>> >>)>>,
                       <<"base", ref("Base")>>,
                       <<"dog", TM(<< <<"allOf", TA(<<ref("Base"),
                                          TM(<< <<"type", TS("object")>>,
                                                <<"properties", TM(<<
                                                    <<"bark", TM(<< <<"type", TS("boolean")>> >>)>> >>)>> >>)>>)>> >>)>>
                       >>)>> >>
                   \o (IF v31 THEN << <<"$defs", TM(<< <<"n", TM(<< <<"type", TS("number")>> >>)>> >>)>>,
                                      <<"unevaluatedProperties", TB(FALSE)>> >>
                       ELSE <<>>))>>
    IN  CASE case = "plain" -> <<pet, base>>
          [] case = "shadow" ->
                << <<"Pet", TM(<< <<"type", TS("object")>>,
                                  <<"properties", TM(<<
                                      <<"id", TM(<< <<"type", TS("integer")>> >>)>>,
                                      <<"parameters", TM(<< <<"allOf", TA(<<ref("Base")>>)>> >>)>> >>)>> >>)>>,
                   base >>
          [] case = "shadowKeys" ->
                << <<"Pet", TM(<< <<"type", TS("object")>>,
                                  <<"properties", TM(<<
                                      <<"id", TM(<< <<"type", TS("integer")>>,
                                                    <<"deprecated", TB(TRUE)>> >>)>>,
                                      <<"headers", TM(<< <<"type", TS("object")>>,
                                                         <<"additionalProperties", TB(FALSE)>>,
                                                         <<"not", TM(<< <<"type", TS("string")>> >>)>> >>)>> >>)>> >>)>>,
                   base >>
          [] case = "names" ->
                \* names chosen by the author that look like extension or
                \* example keys
                << <<"Pet", TM(<< <<"type", TS("object")>>,
                                  <<"properties", TM(<<
                                      <<"id", TM(<< <<"type", TS("integer")>> >>)>>,
                                      <<"x-prop", TM(<< <<"type", TS("string")>> >>)>>,
                                      <<"example", TM(<< <<"type", TS("string")>> >>)>>,
                                      <<"examples", TM(<< <<"type", TS("string")>> >>)>> >>)>> >>)>>,
                   <<"x-internal", TM(<< <<"type", TS("object")>> >>)>>,
                   base >>
          [] case = "componentRef" ->
                \* a property whose schema is the schema of a shared parameter
                << <<"Pet", TM(<< <<"type", TS("object")>>,
                                  <<"properties", TM(<<
                                      <<"limit", TM(<< <<"$ref",
                                          TS("#/components/parameters/Limit/schema")>> >>)>>,
                                      <<"base", ref("Base")>> >>)>> >>)>>,
                   base >>
          [] case = "chain" ->
                \* Pet is flattened from Base; Cat refers into the flattened
                \* Pet, and Kitten into the flattened Cat
                << <<"Pet", TM(<< <<"allOf", TA(<<ref("Nested")>>)>> >>)>>,
                   <<"Cat", TM(<< <<"allOf", TA(<<ref("Pet/allOf/0/properties/id")>>)>> >>)>>,
                   <<"Kitten", TM(<< <<"allOf", TA(<<ref("Cat/allOf/0/properties/key")>>)>> >>)>>,
                   <<"Nested", TM(<< <<"type", TS("object")>>,
                                     <<"properties", TM(<< <<"id", TM(<<
                                         <<"type", TS("object")>>,
                                         <<"properties", TM(<<
                                             <<"key", TM(<< <<"type", TS("string")>> >>)>> >>)>> >>)>> >>)>> >>)>> >>
          [] case = "recursive" ->
                << <<"Pet", TM(<< <<"type", TS("object")>>,
                                  <<"properties", TM(<<
                                      <<"child", TM(<< <<"allOf", TA(<<ref("Pet")>>)>> >>)>> >>)>> >>)>> >>
          [] case = "refCycle" ->
                << <<"Pet", TM(<< <<"type", TS("object")>>,
                                  <<"properties", TM(<< <<"owner", ref("Owner")>> >>)>> >>)>>,
                   <<"Owner", TM(<< <<"type", TS("object")>>,
                                    <<"properties", TM(<< <<"pet", ref("Pet")>> >>)>> >>)>> >>

\* the documents, by name: the kind of document, the root keys that name its
\* version, and the case of its schemas
PipelineDocs ==
    [plain31     |-> [version |-> << <<"openapi", TS("3.1.0")>> >>, schemas |-> "plain"],
     shadow31    |-> [version |-> << <<"openapi", TS("3.1.0")>> >>, schemas |-> "shadow"],
     refCycle31  |-> [version |-> << <<"openapi", TS("3.1.0")>> >>, schemas |-> "refCycle"],
     dialect31   |-> [version |-> << <<"openapi", TS("3.1.0")>>,
                                     <<"jsonSchemaDialect", TS("https://json-schema.org/draft/2020-12/schema")>> >>,
                      schemas |-> "plain"],
     plain30     |-> [version |-> << <<"openapi", TS("3.0.3")>> >>, schemas |-> "plain"],
     recursive30 |-> [version |-> << <<"openapi", TS("3.0.3")>> >>, schemas |-> "recursive"],
     dialect30   |-> [version |-> << <<"openapi", TS("3.0.3")>>,
                                     <<"jsonSchemaDialect", TS("https://json-schema.org/draft/2020-12/schema")>> >>,
                      schemas |-> "plain"],
     component30 |-> [version |-> << <<"openapi", TS("3.0.3")>> >>, schemas |-> "componentRef"],
     plain20     |-> [version |-> << <<"swagger", TS("2.0")>> >>, schemas |-> "plain"],
     recursive20 |-> [version |-> << <<"swagger", TS("2.0")>> >>, schemas |-> "recursive"],
     shadow20    |-> [version |-> << <<"swagger", TS("2.0")>> >>, schemas |-> "shadowKeys"],
     chain20     |-> [version |-> << <<"swagger", TS("2.0")>> >>, schemas |-> "chain"],
     names20     |-> [version |-> << <<"swagger", TS("2.0")>> >>, schemas |-> "names"],
     noVersion   |-> [version |-> <<>>, schemas |-> "plain"]]

PipelineArgs ==
    [doc : DOMAIN PipelineDocs, strict : BOOLEAN, deref : BOOLEAN, diagnostics : BOOLEAN]

PipelineDoc(name) ==
    LET d == PipelineDocs[name]
        is20 == d.version # <<>> /\ d.version[1][1] = "swagger"
        v31 == d.version # <<>> /\ d.version[1][2] = TS("3.1.0")
        p == IF is20 THEN "#/definitions/" ELSE "#/components/schemas/"
        petRef == TM(<< <<"$ref", TS(p \o "Pet")>> >>)
        limit == TM(<< <<"name", TS("limit")>>, <<"in", TS("query")>> >>
                    \o (IF is20 THEN << <<"type", TS("integer")>> >>
                        ELSE << <<"schema", TM(<< <<"type", IF v31 THEN TA(<<TS("integer"), TS("null")>>)
                                                            ELSE TS("integer")>> >>)>> >>))
        names == d.schemas = "names"
        secured == << <<"security", TA(<< TM(<< <<"x-api-key", TA(<<>>)>> >>),
                                          TM(<< <<"oauth", TA(<<TS("x-read")>>)>> >>) >>)>> >>
        ok == TM(<< <<"description", TS("ok")>> >>
                 \o (IF names
                     THEN << <<"headers", TM(<< <<"x-rate-limit", TM(<< <<"type", TS("integer")>> >>)>>,
                                                <<"example", TM(<< <<"type", TS("string")>> >>)>> >>)>> >>
                     ELSE <<>>)
                 \o (IF is20 THEN << <<"schema", petRef>> >>
                     ELSE << <<"content", TM(<< <<"application/json",
                                                  TM(<< <<"schema", petRef>> >>)>> >>)>> >>))
        schemas == TM(PipelineSchemas(d.schemas, p, v31))
    IN  TM(d.version
           \o << <<"info", TM(<< <<"title", TS("Pets")>>, <<"version", TS("1.0.0")>> >>)>>,
                 <<"paths", TM(<< <<"/pets", TM(<< <<"get", TM(<<
                     <<"parameters", TA(<<limit>>)>>,
                     <<"responses", TM(<< <<"200", ok>> >>)>> >>
                     \o (IF names THEN secured ELSE <<>>))>> >>)>> >>)>> >>
           \o (IF names
               THEN secured
                    \o << <<"securityDefinitions", TM(<<
                             <<"x-api-key", TM(<< <<"type", TS("apiKey")>>, <<"name", TS("key")>>,
                                                  <<"in", TS("header")>> >>)>>,
                             <<"oauth", TM(<< <<"type", TS("oauth2")>>, <<"flow", TS("implicit")>>,
                                              <<"authorizationUrl", TS("https://auth.example/")>>,
                                              <<"scopes", TM(<< <<"read", TS("read pets")>>,
                                                                <<"x-read", TS("read all")>>,
                                                                <<"example", TS("a scope")>> >>)>>
                                              >>)>> >>)>> >>
               ELSE <<>>)
           \o (IF is20 THEN << <<"definitions", schemas>> >>
               ELSE << <<"components", TM(<< <<"schemas", schemas>> >>
                          \o (IF d.schemas = "componentRef"
                              THEN << <<"parameters", TM(<< <<"Limit", TM(<<
                                         <<"name", TS("limit")>>, <<"in", TS("query")>>,
                                         <<"schema", TM(<< <<"type", TS("integer")>> >>)>> >>)>> >>)>> >>
                              ELSE <<>>))>> >>))

InitPipeline ==
    \E x \in PipelineArgs :
        /\ heap = <<>>
        /\ root = Undef
        /\ pc = "load"
        /\ err = ""
        /\ ret = Undef
        /\ warnings = <<>>
        /\ stats = NoStats
        /\ arg = x

\* the document as parseSpecText hands it over
LoadPipeline ==
    /\ pc = "load"
    /\ LET a == Parse(<<>>, PipelineDoc(arg.doc))
       IN  /\ heap' = a.h
           /\ root' = a.v
           /\ ret' = a.v
    /\ pc' = "loaded"
    /\ UNCHANGED <<err, warnings, stats, arg>>

\* bundledSpec.swagger === "2.0": sanitizeSwagger2(bundledSpec, { strict })
PassThrough ==
    /\ pc = "loaded"
    /\ Get(heap, root, "swagger") = Str("2.0")
    /\ LET Returned(r) ==
               /\ heap' = r.h
               /\ err' = r.err
               /\ ret' = r.ret
               /\ pc' = IF r.err # "" THEN "failed" ELSE "swagger2"
       IN  Returned(sanitizeSwagger2(Mach(heap), root, arg.strict))
    /\ UNCHANGED <<root, warnings, stats, arg>>

\* !bundledSpec.openapi: the 400 response missing_openapi
Reject ==
    /\ pc = "loaded"
    /\ Get(heap, root, "swagger") # Str("2.0")
    /\ ~Truthy(Get(heap, root, "openapi"))
    /\ pc' = "done"
    /\ err' = "missing_openapi"
    /\ ret' = Undef
    /\ UNCHANGED <<heap, root, warnings, stats, arg>>

\* normalizeOpenapi31(bundledSpec, warnings, diagnostics, log, debug)
Normalize ==
    /\ pc = "loaded"
    /\ Get(heap, root, "swagger") # Str("2.0")
    /\ Truthy(Get(heap, root, "openapi"))
    /\ LET Returned(r) ==
               /\ heap' = r.h
               /\ err' = r.err
               /\ ret' = r.ret
               /\ warnings' = r.warn
               /\ pc' = IF r.err # "" THEN "failed" ELSE "normalized"
       IN  Returned(normalizeOpenapi31(Mach(heap), root, arg.diagnostics))
    /\ UNCHANGED <<root, stats, arg>>

\* convertOpenapi3ToSwagger2(normalized, { strict }); an exception is the 422
\* response conversion_failed
ConvertNormalized ==
    /\ pc = "normalized"
    /\ LET Returned(r) ==
               /\ heap' = r.h
               /\ err' = r.err
               /\ ret' = r.ret
               /\ pc' = IF r.err # "" THEN "done" ELSE "swagger2"
       IN  Returned(convertOpenapi3ToSwagger2(Mach(heap), ret, arg.strict))
    /\ UNCHANGED <<root, warnings, stats, arg>>

\* deref ? dereferenceSwagger2(spec, { log, debug }) : spec
Dereference ==
    /\ pc = "swagger2"
    /\ LET Returned(r) ==
               /\ heap' = r.h
               /\ err' = r.err
               /\ ret' = r.ret
               /\ stats' = [replacedRefs |-> r.replacedRefs, missingRefs |-> r.missingRefs,
                            cycleRefs |-> r.cycleRefs]
               /\ pc' = IF r.err # "" THEN "failed" ELSE "dereferenced"
       IN  Returned(IF arg.deref THEN dereferenceSwagger2(Mach(heap), ret, TRUE)
                    ELSE [Mach(heap) EXCEPT !.ret = ret])
    /\ UNCHANGED <<root, warnings, arg>>

\* finalizeSwaggerSpec(dereferenced)
Finalize ==
    /\ pc = "dereferenced"
    /\ LET Returned(r) ==
               /\ heap' = r.h
               /\ err' = r.err
               /\ ret' = r.ret
               /\ pc' = IF r.err # "" THEN "failed" ELSE "done"
       IN  Returned(finalizeSwaggerSpec(Mach(heap), ret))
    /\ UNCHANGED <<root, warnings, stats, arg>>

NextPipeline ==
    \/ LoadPipeline
    \/ PassThrough
    \/ Reject
    \/ Normalize
    \/ ConvertNormalized
    \/ Dereference
    \/ Finalize

SpecPipeline == InitPipeline /\ [][NextPipeline]_vars

\* the values under the keys of an object or array
Children(h, v) == IF IsObj(v) THEN {h[v.id].val[k] : k \in DOMAIN h[v.id].val} ELSE {}

\* the schemas a Swagger document names: its definitions, and the schema of
\* each parameter and each response of its path items and operations
SchemaRoots(h, spec) ==
    LET defs == Children(h, Get(h, spec, "definitions"))
        items == Children(h, Get(h, spec, "paths"))
        ops == UNION {{Get(h, it, HTTP_METHODS[i]) : i \in 1..Len(HTTP_METHODS)} : it \in items}
        params == UNION {Children(h, Get(h, o, "parameters")) : o \in ops \cup items}
        resps == UNION {Children(h, Get(h, o, "responses")) : o \in ops}
    IN  {v \in defs \cup {Get(h, x, "schema") : x \in params \cup resps} : IsObj(v)}

RECURSIVE SchemaNodes(_, _)
\* S and the schemas under the keywords that hold schemas
SchemaNodes(h, S) ==
    LET kids(v) == {Get(h, v, k) : k \in {"items", "additionalProperties", "not"}}
                   \cup UNION {Children(h, Get(h, v, k)) :
                                  k \in {"properties", "allOf", "anyOf", "oneOf"}}
        N == S \cup {c \in UNION {kids(v) : v \in S} : IsObj(c) /\ ~IsArr(h, c)}
    IN  IF N = S THEN S ELSE SchemaNodes(h, N)

\* the document is an OpenAPI 3.x document: it runs through the normalizer
\* and the converter
IsOpenapiDoc(name) ==
    PipelineDocs[name].version # <<>> /\ PipelineDocs[name].version[1][1] = "openapi"

\* C1: after normalize, conversion with strict on and dereference, every
\* schema of the output has a type that is one scalar or absent, has none of
\* oneOf, anyOf and allOf, and has no 2020-12-only keyword.
C1_PipelineInvariant ==
    pc = "done" /\ err = "" /\ arg.strict /\ arg.deref /\ IsOpenapiDoc(arg.doc)
    => \A v \in SchemaNodes(heap, SchemaRoots(heap, ret)) :
           /\ ~IsObj(Get(heap, v, "type"))
           /\ \A k \in {"oneOf", "anyOf", "allOf"} : ~HasKey(heap, v.id, k)
           /\ \A i \in 1..Len(UNSUPPORTED_JSON_SCHEMA_KEYS) :
                  ~HasKey(heap, v.id, UNSUPPORTED_JSON_SCHEMA_KEYS[i])

\* C2: on a finite document whose references are all local, every stage of
\* the pipeline returns: none recurses without bound and none loops forever.
C2_StagesTerminate == err \notin {"RangeError", "Hang"}

\* the tree t without the key k at its root
WithoutKey(t, k) ==
    IF t.k # "m" THEN t
    ELSE [t EXCEPT !.f = Explicit([key \in DOMAIN t.f \ {k} |-> t.f[key]])]

SchemaLikeNodes(h, spec) ==
    {i \in Reach(h, {spec.id}, {}) : ~h[i].arr /\ isSchemaLike(h, Obj(i))}

\* C18: after the strict sanitizer every schema-like object reachable from
\* the document root, under whatever key it is stored, has none of the
\* strict removal keys and no boolean additionalProperties.
C18_StrictKeysGone ==
    pc = "swagger2" /\ err = "" /\ arg.strict
    => \A i \in SchemaLikeNodes(heap, ret) :
           /\ DOMAIN heap[i].val \cap StrictSchemaRemoveKeys = {}
           /\ Get(heap, Obj(i), "additionalProperties").t # "bool"

\* the objects of the document that are their own descendants
OwnDescendants(h, spec) ==
    {i \in Reach(h, {spec.id}, {}) :
        i \in Reach(h, {c.id : c \in {x \in Children(h, Obj(i)) : IsObj(x)}}, {})}

\* C26: after sanitizeSwagger2 on a parsed Swagger 2.0 document (a tree by
\* object identity) no object of the document is its own descendant, also
\* when a flattened schema lies inside the definition that one of its allOf
\* members references.
C26_NoIdentityCycle ==
    pc = "swagger2" /\ err = "" /\ Get(heap, ret, "swagger") = Str("2.0")
                   /\ ~IsOpenapiDoc(arg.doc)
    => OwnDescendants(heap, ret) = {}

\* C28: applying sanitizeSwagger2 (strict) to the document that
\* sanitizeSwagger2 (strict) returned changes nothing, also on documents
\* with chains of allOf members and dangling `/allOf/<n>` references.
C28_SanitizeFixpoint ==
    [][ pc = "loaded" /\ Get(heap, root, "swagger") = Str("2.0") /\ arg.strict
        => LET once == sanitizeSwagger2(Mach(heap), root, TRUE)
               twice == sanitizeSwagger2(Mach(once.h), once.ret, TRUE)
           IN  once.err = ""
               => /\ twice.err = ""
                  /\ TreeOf(twice.h, twice.ret, MaxTreeDepth)
                         = TreeOf(once.h, once.ret, MaxTreeDepth)
      ]_vars

\* where the maps keyed by names of the author's choosing are: the
\* definitions, the properties of Pet, the headers of the response, the
\* security schemes, the scopes of the oauth2 scheme, and the security
\* requirement objects of the document and of the operation
NameMapPaths ==
    LET get == <<"paths", "/pets", "get">>
    IN  {<<"definitions">>, <<"definitions", "Pet", "properties">>,
         get \o <<"responses", "200", "headers">>,
         <<"securityDefinitions">>, <<"securityDefinitions", "oauth", "scopes">>,
         <<"security", "0">>, <<"security", "1">>,
         get \o <<"security", "0">>, get \o <<"security", "1">>}

\* C29: the strict sanitizer removes no entry of a map keyed by names of the
\* author's choosing, also when a name starts with "x-" or is "example" or
\* "examples".
C29_NamesSurvive ==
    [][ pc = "loaded" /\ pc' = "swagger2" /\ arg.strict
        => \A p \in NameMapPaths :
               IsObj(NodeAt(heap, root, p))
               => /\ IsObj(NodeAt(heap', ret', p))
                  /\ DOMAIN heap[NodeAt(heap, root, p).id].val
                         \subseteq DOMAIN heap'[NodeAt(heap', ret', p).id].val
      ]_vars

\* the pointer text of every node of the document, as a tree
PointerTexts(t) == {formatPath(p) : p \in PathsOf(t) \ {<<>>}}

\* the `$ref` strings of the document
RefStrings(h, spec) ==
    {h[i].val["$ref"].s :
        i \in {j \in Reach(h, {spec.id}, {}) :
                  ~h[j].arr /\ HasKey(h, j, "$ref") /\ IsStr(h[j].val["$ref"])}}

\* C30: after the conversion of an OpenAPI 3 document with strict on, every
\* `$ref` string of the output that is the rewritten pointer of a node of
\* the input is the pointer of a node of the output.
C30_RefsResolve ==
    pc = "swagger2" /\ err = "" /\ arg.strict /\ IsOpenapiDoc(arg.doc)
    => LET a == Parse(<<>>, PipelineDoc(arg.doc))
           existed == {fixRef(q) : q \in PointerTexts(TreeOf(a.h, a.v, MaxTreeDepth))}
       IN  \A r \in RefStrings(heap, ret) \cap existed :
               r \in PointerTexts(TreeOf(heap, ret, MaxTreeDepth))

(***************************************************************************)
(* Specification SpecNormalize: normalizeOpenapi31 and then the converter  *)
(* (strict off) on a 3.1 document whose schema S, or whose property p of  *)
(* S, carries a type array, a nullable and unsupported keywords.           *)
(***************************************************************************)
MaxTypes == 3

TypeNames == {"string", "number", "null"}

\* the type arrays: up to MaxTypes names, none twice
TypeLists ==
    {ts \in UNION {[1..n -> TypeNames] : n \in 0..MaxTypes} :
        \A i, j \in DOMAIN ts : i # j => ts[i] # ts[j]}

NormalizeArgs ==
    [types : TypeLists, nullable : {"absent", "true", "false"},
     unsupported : BOOLEAN, place : {"component", "property"}, diagnostics : BOOLEAN]

\* the schema under test
NormalizeSchema(x) ==
    TM(<< <<"type", TA(<<>> \o [i \in 1..Len(x.types) |-> TS(x.types[i])])>> >>
       \o (IF x.nullable = "absent" THEN <<>>
           ELSE << <<"nullable", TB(x.nullable = "true")>> >>)
       \o (IF x.unsupported
           THEN << <<"unevaluatedProperties", TB(FALSE)>>,
                   <<"$defs", TM(<< <<"n", TM(<< <<"type", TA(<<TS("number"), TS("null")>>)>>,
                                                 <<"$id", TS("urn:n")>> >>)>> >>)>> >>
           ELSE <<>>))

NormalizeDoc(x) ==
    TM(<<
        <<"openapi", TS("3.1.0")>>,
        <<"info", TM(<< <<"title", TS("Pets")>>, <<"version", TS("1.0.0")>> >>)>>,
        <<"paths", TM(<<>>)>>,
        <<"components", TM(<< <<"schemas", TM(<<
            <<"S", IF x.place = "component" THEN NormalizeSchema(x)
                   ELSE TM(<< <<"type", TS("object")>>, <<"$id", TS("urn:s")>>,
                              <<"properties", TM(<< <<"p", NormalizeSchema(x)>> >>)>> >>)>>,
            <<"T", TM(<< <<"type", TS("object")>>,
                         <<"properties", TM(<<
                             <<"q", TM(<< <<"type", TS("string")>>,
                                          <<"examples", TA(<<TS("Rex")>>)>> >>)>> >>)>> >>)>>
            >>)>> >>)>> >>)

\* where the schemas of the document are, under the container of the schemas
NormalizeNodes(x) ==
    {<<"T">>, <<"T", "properties", "q">>, <<"S">>}
    \cup (IF x.place = "property" THEN {<<"S", "properties", "p">>} ELSE {})

\* where the schema under test is
NormalizePlace(x) ==
    IF x.place = "component" THEN <<"S">> ELSE <<"S", "properties", "p">>

InitNormalize ==
    \E x \in NormalizeArgs :
        /\ heap = <<>>
        /\ root = Undef
        /\ pc = "load"
        /\ err = ""
        /\ ret = Undef
        /\ warnings = <<>>
        /\ stats = NoStats
        /\ arg = x

LoadNormalize ==
    /\ pc = "load"
    /\ LET a == Parse(<<>>, NormalizeDoc(arg))
       IN  /\ heap' = a.h
           /\ root' = a.v
           /\ ret' = a.v
    /\ pc' = "loaded"
    /\ UNCHANGED <<err, warnings, stats, arg>>

\* normalizeOpenapi31(bundledSpec, warnings, diagnostics, log, debug)
NormalizeTypes ==
    /\ pc = "loaded"
    /\ LET Returned(r) ==
               /\ heap' = r.h
               /\ err' = r.err
               /\ ret' = r.ret
               /\ warnings' = r.warn
       IN  Returned(normalizeOpenapi31(Mach(heap), root, arg.diagnostics))
    /\ pc' = "normalized"
    /\ UNCHANGED <<root, stats, arg>>

\* convertOpenapi3ToSwagger2(normalized, { strict: false })
ConvertTypes ==
    /\ pc = "normalized"
    /\ err = ""
    /\ LET Returned(r) ==
               /\ heap' = r.h
               /\ err' = r.err
               /\ ret' = r.ret
       IN  Returned(convertOpenapi3ToSwagger2(Mach(heap), ret, FALSE))
    /\ pc' = "converted"
    /\ UNCHANGED <<root, warnings, stats, arg>>

NextNormalize == LoadNormalize \/ NormalizeTypes \/ ConvertTypes

SpecNormalize == InitNormalize /\ [][NextNormalize]_vars

\* the types of the array that are not "null"
NonNull(ts) == SelectSeq(ts, LAMBDA t : t # "null")

\* the value of nullable the normalizer leaves on the schema under test
NullableAfter(x) ==
    IF x.nullable # "absent" THEN Bool(x.nullable = "true")
    ELSE IF SeqHas(x.types, "null") THEN Bool(TRUE)
    ELSE Undef

UnsupportedAt(h, v) ==
    {UNSUPPORTED_JSON_SCHEMA_KEYS[i] : i \in 1..Len(UNSUPPORTED_JSON_SCHEMA_KEYS)}
    \cap DOMAIN h[v.id].val

\* C12: on 3.1 input every schema the walker visits loses each unsupported
\* keyword it carried, and the keyword is kept with its value under
\* x-oas31-unsupported; that key is added only to a node that carried such
\* a keyword, and with diagnostics on each such node gets exactly one warning.
C12_UnsupportedBucket ==
    pc = "normalized" /\ err = ""
    => LET a == Parse(<<>>, NormalizeDoc(arg))
           at(h, r, p) == NodeAt(h, r, <<"components", "schemas">> \o p)
           had(p) == UnsupportedAt(a.h, at(a.h, a.v, p))
           text(p) == "Removed unsupported JSON Schema keywords at "
                          \o formatPath(<<"components", "schemas">> \o p) \o "."
       IN  \A p \in NormalizeNodes(arg) :
               LET v == at(heap, ret, p)
                   bucket == Get(heap, v, "x-oas31-unsupported")
               IN  /\ UnsupportedAt(heap, v) = {}
                   /\ HasKey(heap, v.id, "x-oas31-unsupported") <=> had(p) # {}
                   /\ had(p) # {}
                      => /\ IsObj(bucket)
                         /\ DOMAIN heap[bucket.id].val = had(p)
                         /\ \A k \in had(p) :
                                TreeOf(heap, Get(heap, bucket, k), MaxTreeDepth)
                                    = TreeOf(a.h, Get(a.h, at(a.h, a.v, p), k), MaxTreeDepth)
                   /\ arg.diagnostics
                      => Cardinality({i \in 1..Len(warnings) : warnings[i] = text(p)})
                             = IF had(p) # {} THEN 1 ELSE 0

\* the schema under test carried two unsupported keywords, its neighbour T
\* none: one bucket with the two keywords and their values, one warning for it
C12_Witness ==
    /\ pc = "normalized" /\ err = ""
    /\ arg.unsupported /\ arg.place = "component" /\ arg.diagnostics
    /\ LET v == NodeAt(heap, ret, <<"components", "schemas", "S">>)
       IN  /\ Keys(heap, Get(heap, v, "x-oas31-unsupported").id)
                  = <<"$defs", "unevaluatedProperties">>
           /\ ~HasKey(heap, v.id, "$defs")
    /\ ~HasKey(heap, NodeAt(heap, ret, <<"components", "schemas", "T">>).id, "x-oas31-unsupported")
    /\ SeqHas(warnings, "Removed unsupported JSON Schema keywords at #/components/schemas/S.")

(***************************************************************************)
(* Specification SpecWalk: normalizeOpenapi31 on a 3.1 document loaded    *)
(* from YAML, whose aliases make one object the value of several keys:    *)
(* a schema, a path item or a callback that is shared, or that is its own *)
(* descendant.                                                             *)
(***************************************************************************)
WalkLinks ==
    {"none", "sharedSchema", "schemaCycle", "sharedPathItem", "sharedCallback",
     "pathItemCycle", "callbackCycle"}

WalkTypes == {<<"string">>, <<"string", "null">>, <<"string", "number">>, <<"null">>}

\* the bounds of the schema under test: exclusiveMinimum 5 with no minimum,
\* exclusiveMaximum 9 with maximum 9, exclusiveMinimum 5 with minimum 1, and
\* both exclusive bounds with a minimum and a maximum that differ from them
WalkBounds == {"absent", "alone", "same", "differs", "bothDiffer"}

WalkArgs ==
    [link : WalkLinks, types : WalkTypes, exclusive : WalkBounds, diagnostics : BOOLEAN]

WalkBoundKeys(x) ==
    CASE x.exclusive = "absent" -> <<>>
      [] x.exclusive = "alone" -> << <<"exclusiveMinimum", TN("5")>> >>
      [] x.exclusive = "same" -> << <<"exclusiveMaximum", TN("9")>>, <<"maximum", TN("9")>> >>
      [] x.exclusive = "differs" -> << <<"exclusiveMinimum", TN("5")>>, <<"minimum", TN("1")>> >>
      [] x.exclusive = "bothDiffer" ->
            << <<"exclusiveMinimum", TN("5")>>, <<"minimum", TN("1")>>,
               <<"exclusiveMaximum", TN("9")>>, <<"maximum", TN("20")>> >>

WalkResponses == TM(<< <<"200", TM(<< <<"description", TS("ok")>> >>)>> >>)

WalkDoc(x) ==
    TM(<<
        <<"openapi", TS("3.1.0")>>,
        <<"info", TM(<< <<"title", TS("Pets")>>, <<"version", TS("1.0.0")>> >>)>>,
        <<"paths", TM(<<
            <<"/a", TM(<< <<"get", TM(<<
                <<"parameters", TA(<< TM(<<
                    <<"name", TS("id")>>, <<"in", TS("query")>>,
                    <<"schema", TM(<< <<"type", TS("string")>>, <<"const", TS("x")>> >>)>> >>) >>)>>,
                <<"responses", WalkResponses>>,
                <<"callbacks", TM(<< <<"onEvent", TM(<< <<"url", TM(<<
                    <<"post", TM(<< <<"responses", WalkResponses>>,
                                    <<"callbacks", TM(<<>>)>> >>)>> >>)>> >>)>> >>)>> >>)>> >>)>>,
            <<"/b", TM(<< <<"get", TM(<< <<"responses", WalkResponses>> >>)>> >>)>> >>)>>,
        <<"components", TM(<< <<"schemas", TM(<<
            <<"S", TM(<< <<"type", TS("object")>>, <<"$id", TS("urn:s")>>,
                         <<"properties", TM(<<
                             <<"a", TM(<< <<"type", TA(<<>> \o [i \in 1..Len(x.types) |->
                                                                  TS(x.types[i])])>> >>
                                       \o WalkBoundKeys(x))>> >>)>> >>)>>
            >>)>> >>)>> >>)

\* an alias: the object at path from is stored under key at path to as well
WalkAlias(h, r, to, key, from) == Put(h, NodeAt(h, r, to).id, key, NodeAt(h, r, from))

WalkLinked(h, r, link) ==
    LET S == <<"components", "schemas", "S">>
        get == <<"paths", "/a", "get">>
        onEvent == get \o <<"callbacks", "onEvent">>
    IN  CASE link = "none" -> h
          [] link = "sharedSchema" ->
                WalkAlias(h, r, S \o <<"properties">>, "b", S \o <<"properties", "a">>)
          [] link = "schemaCycle" -> WalkAlias(h, r, S \o <<"properties">>, "self", S)
          [] link = "sharedPathItem" -> WalkAlias(h, r, <<"paths">>, "/b", <<"paths", "/a">>)
          [] link = "sharedCallback" ->
                WalkAlias(h, r, <<"paths", "/b", "get">>, "callbacks", get \o <<"callbacks">>)
          [] link = "pathItemCycle" -> WalkAlias(h, r, onEvent, "url", <<"paths", "/a">>)
          [] link = "callbackCycle" ->
                WalkAlias(h, r, onEvent \o <<"url", "post", "callbacks">>, "again", onEvent)

InitWalk ==
    \E x \in WalkArgs :
        /\ heap = <<>>
        /\ root = Undef
        /\ pc = "load"
        /\ err = ""
        /\ ret = Undef
        /\ warnings = <<>>
        /\ stats = NoStats
        /\ arg = x

\* Yaml.load(text)
LoadWalk ==
    /\ pc = "load"
    /\ LET a == Parse(<<>>, WalkDoc(arg))
       IN  /\ heap' = WalkLinked(a.h, a.v, arg.link)
           /\ root' = a.v
           /\ ret' = a.v
    /\ pc' = "loaded"
    /\ UNCHANGED <<err, warnings, stats, arg>>

\* normalizeOpenapi31(bundledSpec, warnings, diagnostics, log, debug)
NormalizeWalk ==
    /\ pc = "loaded"
    /\ LET Returned(r) ==
               /\ heap' = r.h
               /\ err' = r.err
               /\ ret' = r.ret
               /\ warnings' = r.warn
       IN  Returned(normalizeOpenapi31(Mach(heap), root, arg.diagnostics))
    /\ pc' = "normalized"
    /\ UNCHANGED <<root, stats, arg>>

NextWalk == LoadWalk \/ NormalizeWalk

SpecWalk == InitWalk /\ [][NextWalk]_vars

\* C23: the walker returns on every finite object graph, also when a schema,
\* a path item or a callback is shared or is its own descendant: the call
\* stack does not overflow and the walk does not run for ever.
C23_WalkTerminates == pc = "normalized" => err \notin {"RangeError", "Hang"}

\* the warnings about the node at path p, and those among them that say s
WarningsAt(p) ==
    LET tail == " at " \o formatPath(p) \o "."
    IN  {i \in 1..Len(warnings) :
            /\ Len(warnings[i]) >= Len(tail)
            /\ SubSeq(warnings[i], Len(warnings[i]) - Len(tail) + 1, Len(warnings[i])) = tail}

Warned(s, p) == \E i \in 1..Len(warnings) : warnings[i] = s \o formatPath(p) \o "."

WalkA == <<"components", "schemas", "S", "properties", "a">>

WalkParamSchema == <<"paths", "/a", "get", "parameters", "0", "schema">>

\* C24 as stated: with warning collection on, each collapse of a type array
\* with several types, each const replaced by enum, each numeric
\* exclusiveMinimum / exclusiveMaximum rewritten and each stripping of
\* unsupported keywords leaves at least one warning about the node.
C24_Original ==
    pc = "normalized" /\ err = "" /\ arg.diagnostics
    => /\ Len(NonNull(arg.types)) > 1 => WarningsAt(WalkA) # {}
       /\ arg.exclusive # "absent" => WarningsAt(WalkA) # {}
       /\ WarningsAt(WalkParamSchema) # {}
       /\ WarningsAt(<<"components", "schemas", "S">>) # {}

\* C24: with warning collection on the warnings are exactly these: the
\* downgrade of the version; for a type array, one warning when more than one
\* type other than "null" is left (collapsed) or none is (dropped) and no
\* warning when exactly one is left; one warning for a const replaced by enum;
\* one for the unsupported keywords stripped from a node; and for a numeric
\* exclusiveMinimum (exclusiveMaximum) one warning only when the node had a
\* minimum (maximum) of another value, none when it had none or the same.
\* With collection off there is no warning.  The run ends without error.
C24_LossyRewritesWarn ==
    pc = "normalized" /\ arg.link \notin {"pathItemCycle", "callbackCycle"}
    => /\ err = ""
       /\ ~arg.diagnostics => warnings = <<>>
       /\ arg.diagnostics
          => LET rest == Len(NonNull(arg.types))
                 n(b) == IF b THEN 1 ELSE 0
                 lower == arg.exclusive \in {"differs", "bothDiffer"}
                 upper == arg.exclusive = "bothDiffer"
             IN  /\ SeqHas(warnings, "Downgraded openapi version 3.1.x to 3.0.3 for conversion.")
                 /\ Warned("Replaced const with enum at ", WalkParamSchema)
                 /\ Warned("Removed unsupported JSON Schema keywords at ",
                           <<"components", "schemas", "S">>)
                 /\ rest > 1 <=> Warned("Collapsed multiple schema types at ", WalkA)
                 /\ rest = 0 <=> Warned("Dropped null-only schema type at ", WalkA)
                 /\ lower <=> Warned("exclusiveMinimum overwrote minimum at ", WalkA)
                 /\ upper <=> Warned("exclusiveMaximum overwrote maximum at ", WalkA)
                 /\ Len(warnings) = 3 + n(rest # 1) + n(lower) + n(upper)

\* exclusiveMinimum 5 on a schema without minimum, type ["string", "null"]:
\* the schema is rewritten to type string, nullable, minimum 5, exclusiveMinimum
\* true, and no warning is about it
C24_Witness ==
    /\ pc = "normalized" /\ err = "" /\ arg.diagnostics
    /\ arg.exclusive = "alone" /\ arg.types = <<"string", "null">>
    /\ LET v == NodeAt(heap, ret, WalkA)
       IN  /\ Get(heap, v, "minimum") = Num("5")
           /\ Get(heap, v, "exclusiveMinimum") = Bool(TRUE)
           /\ Get(heap, v, "type") = Str("string")
           /\ Get(heap, v, "nullable") = Bool(TRUE)
    /\ WarningsAt(WalkA) = {}
    /\ Len(warnings) = 3

====
